---- MODULE Spec2Model ----
(***************************************************************************)
(* Smart-Librarian: the RAG orchestration of RAGService.ask_book_chat      *)
(* (src/smart_librarian/core/rag_service.py): embedding cache, vector      *)
(* retrieval, prompt construction, the two-phase tool-calling protocol,    *)
(* the record lookup tool and the best-effort image generation.            *)
(*                                                                         *)
(* Python strings are TLA+ strings.  Python's None is the reserved string  *)
(* None, which no input contains.  One ask is a sequence of steps, one per *)
(* external call; each step runs the code up to the next external call.    *)
(***************************************************************************)
EXTENDS Integers, Sequences, FiniteSets, TLC

\* ------------------------------------------------------------------ bounds
\* Capacity of the embedding cache.  The source uses 128
\* (rag_service.py:98); the model scales it down so that eviction happens.
maxsize == 2
\* How many asks a caller makes on one history.
MaxTurns == 1

\* --------------------------------------------------------- program values
None == "<None>"

n_results == 3

APOLOGY ==
  "I'm sorry, I couldn't find any books matching your interest. Could you please rephrase?"

FALLBACK == "I was unable to generate a response."

SYSTEM_MESSAGE ==
  [role |-> "system",
   content |-> "You are a friendly assistant specializing in book recommendations.",
   tool_calls |-> <<>>, tool_call_id |-> None, name |-> None]

TOOL_NAME == "get_summary_by_title"

\* The tools declared to the first model call.
tools ==
  << [type |-> "function", name |-> TOOL_NAME,
      properties |-> [title |-> "string"], required |-> << "title" >>] >>

DELIMITER == "\n\n---\n\n"

\* The fixed instruction template before the context block (the back quotes
\* around the tool name are written as apostrophes).
PROMPT_HEAD ==
  "\nYou are a specialized book recommendation assistant. Your task is to follow these rules strictly:\n\n"
  \o "1.  Your ONLY source of information is the \"Available Summaries\" provided below. Do NOT use any of your own knowledge about books.\n"
  \o "2.  You must analyze the user's interest and compare it against the provided summaries.\n"
  \o "3.  **Decision Rule:**\n"
  \o "    - **IF** you find a book summary that is a strong, direct match for the user's interest, you will recommend that ONE book.\n"
  \o "    - **ELSE** (if there are no strong matches or the summaries are irrelevant to the user's interest), you MUST respond with: \"I couldn't find a suitable book in my database for that specific interest. Could I help you with a different theme?\" Do not try to recommend the 'closest' or 'most similar' book if it is not a good fit.\n\n"
  \o "4.  **Format for a Successful Recommendation:**\n"
  \o "    - First, provide a brief, 1-2 sentence explanation for why the book is a good match.\n"
  \o "    - After your explanation, you MUST call the 'get_summary_by_title' tool. Do not write the summary yourself.\n\n"
  \o "---\nAvailable summaries (context):\n"

PROMPT_MID == "\n---\n\nUser's interest: \""

PROMPT_TAIL == "\"\n"

\* ------------------------------------------------------------ input sets
\* Query strings a caller may send; two of them differ only in letter case
\* and one only in trailing whitespace.  There is always one more query
\* than the cache holds.
AllQueries ==
  << "space adventure", "Space Adventure", "space adventure ", "love story", "war" >>

Queries == { AllQueries[i] : i \in 1..(maxsize + 1) }

\* The record table, title -> summary, as loaded from the JSON file.  One
\* record has an empty summary.
RecordTables ==
  { [t \in {"Book A", "Book B", "Book C"} |->
       IF t = "Book A" THEN "Full summary A"
       ELSE IF t = "Book B" THEN "" ELSE "Full summary C"] }

\* Titles the model may put in a tool call: two keys of the table, and one
\* that differs from a key only in case.
TitleInputs == {"Book A", "Book B", "book a"}

\* The text stored in the index for a record ("title. summary",
\* scripts/embed_books.py:67).
Document(title, summary) == title \o ". " \o summary

\* Ranked document lists the vector index may return (at most n_results).
CandidateLists ==
  { <<>>,
    << Document("Book A", "Full summary A"), Document("Book B", ""),
       Document("Book C", "Full summary C") >>,
    << Document("Book B", ""), Document("Book A", "Full summary A") >> }

RetrievalResults == { r \in CandidateLists : Len(r) <= n_results }

DECLINE_SENTENCE ==
  "I couldn't find a suitable book in my database for that specific interest. Could I help you with a different theme?"

FINAL_TEXT == "A fine match. Here is the full summary."

IMAGE_URL == "https://images.example/1.png"

\* ------------------------------------------------------------ pure helpers
\* Python truthiness of an optional string: None and "" are false.
Truthy(s) == s # None /\ s # ""

UPPERCASE == "ABCDEFGHIJKLMNOPQRSTUVWXYZ"

LOWERCASE == "abcdefghijklmnopqrstuvwxyz"

\* str.lower() on ASCII text.
RECURSIVE lower(_)
lower(s) ==
  IF Len(s) = 0 THEN ""
  ELSE LET c == SubSeq(s, 1, 1)
       IN  (IF \E i \in 1..26 : SubSeq(UPPERCASE, i, i) = c
            THEN LET i == CHOOSE i \in 1..26 : SubSeq(UPPERCASE, i, i) = c
                 IN  SubSeq(LOWERCASE, i, i)
            ELSE c)
           \o lower(SubSeq(s, 2, Len(s)))

\* Join with the documents taken in the opposite order.
RECURSIVE Join_reversed(_, _)
Join_reversed(sep, seq) ==
  IF Len(seq) = 0 THEN ""
  ELSE IF Len(seq) = 1 THEN seq[1]
  ELSE Join_reversed(sep, Tail(seq)) \o sep \o seq[1]

\* sep.join(seq)
RECURSIVE Join(_, _)
Join(sep, seq) ==
  IF Len(seq) = 0 THEN ""
  ELSE IF Len(seq) = 1 THEN seq[1]
  ELSE seq[1] \o sep \o Join(sep, Tail(seq))

\* The augmented user prompt of ask_book_chat.
BuildPrompt(q, docs) ==
  PROMPT_HEAD \o Join(DELIMITER, docs) \o PROMPT_MID \o q \o PROMPT_TAIL

\* dict.get(key, default)
DictGet(d, k, default) == IF k \in DOMAIN d THEN d[k] ELSE default

NOT_FOUND(title) == "The summary for the book '" \o title \o "' was not found."

\* The lookup without the not-found text: an absent title gives None.
get_summary_by_title_unguarded(dict, title) == DictGet(dict, title, None)

\* RAGService.get_summary_by_title
get_summary_by_title(dict, title) ==
  LET summary == DictGet(dict, title, None)
  IN  IF Truthy(summary) THEN summary ELSE NOT_FOUND(title)

\* The JSON text of a tool call's arguments, and json.loads on it.
ArgsJSON(t) == "{\"title\": \"" \o t \o "\"}"
ARGS_NO_TITLE == "{}"
ARGS_MALFORMED == "{\"title\": "

ArgumentInputs == { ArgsJSON(t) : t \in TitleInputs } \cup {ARGS_NO_TITLE, ARGS_MALFORMED}

\* json.loads: [ok |-> FALSE] when it raises, else the parsed object as a
\* function from keys to values.
json_loads(s) ==
  IF \E t \in TitleInputs : s = ArgsJSON(t)
  THEN [ok |-> TRUE,
        obj |-> [k \in {"title"} |-> CHOOSE t \in TitleInputs : s = ArgsJSON(t)]]
  ELSE IF s = ARGS_NO_TITLE
  THEN [ok |-> TRUE, obj |-> [k \in {} |-> ""]]
  ELSE [ok |-> FALSE, obj |-> [k \in {} |-> ""]]

\* The embedding service: one text in, one vector out, deterministic.
embeddings_create(q) ==
  << CHOOSE i \in 1..Len(AllQueries) : AllQueries[i] = q, Len(q) >>

\* The image prompt of _generate_image_for_book.
SUMMARY_PREFIX == 500

\* The prompt with the whole summary in it.
ImagePrompt_whole_summary(title, summary) ==
  "A symbolic and atmospheric digital painting inspired by the book '" \o title \o "'. "
  \o "The artwork should be a visual metaphor for the book's main themes, derived from the summary: '"
  \o summary
  \o "'. "
  \o "Focus on mood, imagery, and symbolism to evoke the feeling of the story. "

ImagePrompt(title, summary) ==
  "A symbolic and atmospheric digital painting inspired by the book '" \o title \o "'. "
  \o "The artwork should be a visual metaphor for the book's main themes, derived from the summary: '"
  \o SubSeq(summary, 1, IF Len(summary) < SUMMARY_PREFIX THEN Len(summary) ELSE SUMMARY_PREFIX)
  \o "'. "
  \o "Focus on mood, imagery, and symbolism to evoke the feeling of the story. "

\* ------------------------------------------------------------------ state
VARIABLES
  book_summaries_dict,  \* the record table
  embedding_cache,      \* lru_cache of _get_embedding: entries, least recent first
  messages,             \* the caller's conversation history
  turns,                \* asks made on the current history
  pc,                   \* where the running ask is: "idle" when none runs
  query,                \* the running (or last) ask's query
  history_before,       \* messages as they were when the ask was called
  query_embedding,      \* local of ask_book_chat
  retrieved_docs,       \* local of ask_book_chat
  response_message,     \* local: the phase-1 reply
  recommended_title,    \* local
  final_text_content,   \* local
  calls,                \* the external calls and tool runs of this ask, in order
  previous,             \* the embedding calls of the ask before, if it had this query
  outcome,              \* "none", "running", "returned" or "raised"
  result,               \* what the ask returned, or the call that raised
  frontend,             \* who calls the service: "caller", "cli" or "http"
  front                 \* the front end: its position and what it did this turn

vars == << book_summaries_dict, embedding_cache, messages, turns, pc, query,
           history_before, query_embedding, retrieved_docs, response_message,
           recommended_title, final_text_content, calls, previous, outcome,
           result, frontend, front >>

NoResult == [text |-> None, image_url |-> None, error |-> None]

NoMessage ==
  [role |-> None, content |-> None, tool_calls |-> <<>>,
   tool_call_id |-> None, name |-> None]

\* A front end that waits for input and has done nothing yet.
FrontReady == [state |-> "ready", events |-> <<>>]

\* RAGService() constructed, nothing asked yet.
Constructed ==
  /\ book_summaries_dict \in RecordTables
  /\ embedding_cache = <<>>
  /\ messages = << SYSTEM_MESSAGE >>
  /\ turns = 0
  /\ pc = "idle"
  /\ query = ""
  /\ history_before = << SYSTEM_MESSAGE >>
  /\ query_embedding = <<>>
  /\ retrieved_docs = <<>>
  /\ response_message = NoMessage
  /\ recommended_title = ""
  /\ final_text_content = ""
  /\ calls = <<>>
  /\ previous = [same |-> FALSE, embed |-> <<>>]
  /\ outcome = "none"
  /\ result = NoResult
  /\ front = FrontReady

\* The service used through its Python interface by some caller.
Init ==
  /\ Constructed
  /\ frontend = "caller"

\* --------------------------------------------------------- model replies
AssistantMessage(content, tool_calls) ==
  [role |-> "assistant", content |-> content, tool_calls |-> tool_calls,
   tool_call_id |-> None, name |-> None]

UserMessage(content) ==
  [role |-> "user", content |-> content, tool_calls |-> <<>>,
   tool_call_id |-> None, name |-> None]

ToolMessage(tool_call_id, name, content) ==
  [role |-> "tool", content |-> content, tool_calls |-> <<>>,
   tool_call_id |-> tool_call_id, name |-> name]

\* The first tool call of a reply: the lookup tool with any arguments, or a
\* function the service does not know.
FirstCalls ==
  { [id |-> "call_1", name |-> TOOL_NAME, arguments |-> a] : a \in ArgumentInputs }
  \cup { [id |-> "call_1", name |-> "other_tool", arguments |-> ARGS_NO_TITLE] }

\* A further, parallel tool call in the same reply.
SecondCall == [id |-> "call_2", name |-> TOOL_NAME, arguments |-> ArgsJSON("Book A")]

ToolCallLists ==
  { << c >> : c \in FirstCalls } \cup { << c, SecondCall >> : c \in FirstCalls }

\* What the model may answer to the first call.
Phase1Replies ==
  { AssistantMessage(c, <<>>) : c \in {None, "", DECLINE_SENTENCE} }
  \cup { AssistantMessage(None, tc) : tc \in ToolCallLists }

\* The text of the model's answer to the second call.
Phase2Contents == {FINAL_TEXT, "", None}

\* ------------------------------------------------------------ the cache
CacheKeys == { embedding_cache[i].key : i \in 1..Len(embedding_cache) }

CacheIndex(q) == CHOOSE i \in 1..Len(embedding_cache) : embedding_cache[i].key = q

Without(seq, i) == SubSeq(seq, 1, i - 1) \o SubSeq(seq, i + 1, Len(seq))

\* lru_cache on a hit: the entry becomes the most recently used.
CacheTouch(cache, i) == Append(Without(cache, i), cache[i])

\* A cache that stores an entry under the lower-case text of the query.
CacheStore_normalized(cache, q, v) ==
  Append(IF Len(cache) >= maxsize THEN Tail(cache) ELSE cache,
         [key |-> lower(q), value |-> v])

\* A cache that takes no new entry once it is full.
CacheStore_full_refuses(cache, q, v) ==
  IF Len(cache) >= maxsize THEN cache ELSE Append(cache, [key |-> q, value |-> v])

\* lru_cache on a miss whose call returned: store, evicting the least
\* recently used entry when the cache is full.
CacheStore(cache, q, v) ==
  Append(IF Len(cache) >= maxsize THEN Tail(cache) ELSE cache,
         [key |-> q, value |-> v])

\* --------------------------------------------------------------- actions
\* One entry of the call log: the operation, its argument, whether it
\* returned (ok) or raised, and what it returned.
Call(op, arg, ok, ret) == [op |-> op, arg |-> arg, ok |-> ok, ret |-> ret]

CallsOf(op) == SelectSeq(calls, LAMBDA c : c.op = op)

\* ask_book_chat returns (text, image_url).
Return(text, image_url) ==
  /\ pc' = "idle"
  /\ outcome' = "returned"
  /\ result' = [text |-> text, image_url |-> image_url, error |-> None]

\* An exception leaves ask_book_chat; err names the call that raised.
Raise(err) ==
  /\ pc' = "idle"
  /\ outcome' = "raised"
  /\ result' = [text |-> None, image_url |-> None, error |-> err]

\* ask_book_chat(q, history) is entered: nothing has run yet.
Enter(q, history) ==
  /\ pc = "idle"
  /\ query' = q
  /\ messages' = history
  /\ history_before' = history
  /\ query_embedding' = <<>>
  /\ retrieved_docs' = <<>>
  /\ response_message' = NoMessage
  /\ recommended_title' = ""
  /\ final_text_content' = ""
  /\ calls' = <<>>
  /\ previous' = IF outcome # "none" /\ q = query
                 THEN [same |-> TRUE, embed |-> CallsOf("embed")]
                 ELSE [same |-> FALSE, embed |-> <<>>]
  /\ outcome' = "running"
  /\ result' = NoResult
  /\ pc' = "get_embedding"
  /\ UNCHANGED << book_summaries_dict, embedding_cache >>

\* A caller asks on the history of the conversation so far.
Ask(q) ==
  /\ frontend = "caller"
  /\ turns < MaxTurns
  /\ turns' = turns + 1
  /\ Enter(q, messages)
  /\ UNCHANGED << frontend, front >>

\* A caller starts a new conversation: it asks on a history that holds
\* only the system message.
AskNewConversation(q) ==
  /\ frontend = "caller"
  /\ turns > 0
  /\ turns' = 1
  /\ Enter(q, << SYSTEM_MESSAGE >>)
  /\ UNCHANGED << frontend, front >>

\* A hit answered with the vector of the oldest entry, whatever its key.
EmbeddingHit_oldest ==
  /\ pc = "get_embedding"
  /\ query \in CacheKeys
  /\ query_embedding' = embedding_cache[1].value
  /\ embedding_cache' = CacheTouch(embedding_cache, CacheIndex(query))
  /\ pc' = "query_collection"
  /\ UNCHANGED << frontend, front, book_summaries_dict, messages, turns,
                  query, history_before, retrieved_docs, response_message,
                  recommended_title, final_text_content, calls, previous,
                  outcome, result >>

\* _get_embedding, cache hit: no call is made.
EmbeddingHit ==
  /\ pc = "get_embedding"
  /\ query \in CacheKeys
  /\ query_embedding' = embedding_cache[CacheIndex(query)].value
  /\ embedding_cache' = CacheTouch(embedding_cache, CacheIndex(query))
  /\ pc' = "query_collection"
  /\ UNCHANGED << frontend, front, book_summaries_dict,
                  messages, turns, query, history_before,
                  retrieved_docs, response_message, recommended_title,
                  final_text_content, calls, previous, outcome, result >>

\* _get_embedding, cache miss, the embedding service answers.
EmbeddingMiss ==
  /\ pc = "get_embedding"
  /\ query \notin CacheKeys
  /\ calls' = Append(calls, Call("embed", query, TRUE, embeddings_create(query)))
  /\ query_embedding' = embeddings_create(query)
  /\ embedding_cache' = CacheStore(embedding_cache, query, embeddings_create(query))
  /\ pc' = "query_collection"
  /\ UNCHANGED << frontend, front, book_summaries_dict,
                  messages, turns, query, history_before,
                  retrieved_docs, response_message, recommended_title,
                  final_text_content, previous, outcome, result >>

\* A cache that keeps the failure: an entry without a vector is stored
\* for the query before the exception leaves.
EmbeddingFails_caches_failure ==
  /\ pc = "get_embedding"
  /\ query \notin CacheKeys
  /\ calls' = Append(calls, Call("embed", query, FALSE, None))
  /\ embedding_cache' = CacheStore(embedding_cache, query, <<>>)
  /\ Raise("embedding")
  /\ UNCHANGED << frontend, front, book_summaries_dict,
                  messages, turns, query,
                  history_before, query_embedding, retrieved_docs,
                  response_message, recommended_title, final_text_content,
                  previous >>

\* The embedding failure swallowed: the ask goes on without a vector.
EmbeddingFails_swallowed ==
  /\ pc = "get_embedding"
  /\ query \notin CacheKeys
  /\ calls' = Append(calls, Call("embed", query, FALSE, None))
  /\ pc' = "query_collection"
  /\ UNCHANGED << frontend, front, book_summaries_dict,
                  embedding_cache, messages, turns, query,
                  history_before, query_embedding, retrieved_docs,
                  response_message, recommended_title, final_text_content,
                  previous, outcome, result >>

\* _get_embedding, cache miss, the embedding service raises: nothing is
\* stored and the exception leaves ask_book_chat.
EmbeddingFails ==
  /\ pc = "get_embedding"
  /\ query \notin CacheKeys
  /\ calls' = Append(calls, Call("embed", query, FALSE, None))
  /\ Raise("embedding")
  /\ UNCHANGED << frontend, front, book_summaries_dict,
                  embedding_cache, messages, turns, query,
                  history_before, query_embedding, retrieved_docs,
                  response_message, recommended_title, final_text_content,
                  previous >>

\* The emptiness test left out.
NoDocuments_never(docs) == FALSE

\* 'if not retrieved_docs' (line 123).
NoDocuments(docs) == Len(docs) = 0

\* The prompt appended before the result is looked at: the apology path
\* leaves a prompt without documents in the history.
QueryCollection_appends_first(docs) ==
  /\ pc = "query_collection"
  /\ calls' = Append(calls, Call("index", << query_embedding, n_results >>, TRUE, docs))
  /\ retrieved_docs' = docs
  /\ messages' = Append(messages, UserMessage(BuildPrompt(query, docs)))
  /\ IF NoDocuments(docs)
     THEN Return(APOLOGY, None)
     ELSE /\ pc' = "first_api_call"
          /\ UNCHANGED << outcome, result >>
  /\ UNCHANGED << frontend, front, book_summaries_dict,
                  embedding_cache, turns, query,
                  history_before, query_embedding, response_message,
                  recommended_title, final_text_content, previous >>

\* The prompt put in the place of the conversation so far: the history
\* becomes the system message and the prompt of this turn.
QueryCollection_rewrites(docs) ==
  /\ pc = "query_collection"
  /\ calls' = Append(calls, Call("index", << query_embedding, n_results >>, TRUE, docs))
  /\ retrieved_docs' = docs
  /\ IF NoDocuments(docs)
     THEN /\ Return(APOLOGY, None)
          /\ UNCHANGED messages
     ELSE /\ messages' = << SYSTEM_MESSAGE, UserMessage(BuildPrompt(query, docs)) >>
          /\ pc' = "first_api_call"
          /\ UNCHANGED << outcome, result >>
  /\ UNCHANGED << frontend, front, book_summaries_dict,
                  embedding_cache, turns, query,
                  history_before, query_embedding, response_message,
                  recommended_title, final_text_content, previous >>

\* collection.query returns; the empty result is the apology, any other is
\* joined into the prompt, which is appended to the history.
QueryCollection(docs) ==
  /\ pc = "query_collection"
  /\ calls' = Append(calls, Call("index", << query_embedding, n_results >>, TRUE, docs))
  /\ retrieved_docs' = docs
  /\ IF NoDocuments(docs)
     THEN /\ Return(APOLOGY, None)
          /\ UNCHANGED messages
     ELSE /\ messages' = Append(messages, UserMessage(BuildPrompt(query, docs)))
          /\ pc' = "first_api_call"
          /\ UNCHANGED << outcome, result >>
  /\ UNCHANGED << frontend, front, book_summaries_dict,
                  embedding_cache, turns, query,
                  history_before, query_embedding, response_message,
                  recommended_title, final_text_content, previous >>

\* collection.query raises.
QueryCollectionFails ==
  /\ pc = "query_collection"
  /\ calls' = Append(calls, Call("index", << query_embedding, n_results >>, FALSE, None))
  /\ Raise("index")
  /\ UNCHANGED << frontend, front, book_summaries_dict,
                  embedding_cache, messages, turns, query,
                  history_before, query_embedding, retrieved_docs,
                  response_message, recommended_title, final_text_content,
                  previous >>

\* The fallback sentence whatever the reply says.
FallbackText_always(msg) == FALLBACK

\* The text returned when the first reply has no tool call (line 210).
FallbackText(msg) == IF Truthy(msg.content) THEN msg.content ELSE FALLBACK

\* args.get("title", "") (line 191).
RequestedTitle(obj) == DictGet(obj, "title", "")

\* The guard without the look into the record table.
WantsImage_any_title(dict, title, text) == Truthy(title) /\ Truthy(text)

\* The guard of the image generation (lines 214-216).
WantsImage(dict, title, text) ==
  /\ Truthy(title)
  /\ Truthy(text)
  /\ Truthy(DictGet(dict, title, ""))

\* The last tool call of the reply taken in place of the first.
HonoredCall_last(tool_calls) == tool_calls[Len(tool_calls)]

\* response_message.tool_calls[0] (line 187): the one tool call that is used.
HonoredCall(tool_calls) == tool_calls[1]

\* The first chat call: all of history, the tool declared, no token limit
\* (written 0).
FirstRequest == [messages |-> messages, tools |-> tools, max_tokens |-> 0]

\* The first chat call returns reply; the code runs up to the second call
\* or to the return.
FirstApiCall(reply) ==
  /\ pc = "first_api_call"
  /\ response_message' = reply
  /\ IF Len(reply.tool_calls) > 0
     THEN LET tool_call == HonoredCall(reply.tool_calls)
              function_name == tool_call.name
          IN  IF function_name = TOOL_NAME
              THEN LET args == json_loads(tool_call.arguments)
                   IN  IF ~args.ok
                       THEN /\ calls' = Append(calls, Call("chat", FirstRequest, TRUE, reply))
                            /\ messages' = Append(messages, reply)
                            /\ Raise("json")
                            /\ UNCHANGED << recommended_title, final_text_content >>
                       ELSE LET title == RequestedTitle(args.obj)
                                tool_response ==
                                  get_summary_by_title(book_summaries_dict, title)
                            IN  /\ calls' = calls \o
                                     << Call("chat", FirstRequest, TRUE, reply),
                                        Call("lookup", title, TRUE, tool_response) >>
                                /\ recommended_title' = title
                                /\ messages' =
                                     Append(Append(messages, reply),
                                            ToolMessage(tool_call.id, function_name,
                                                        tool_response))
                                /\ pc' = "second_api_call"
                                /\ UNCHANGED << final_text_content, outcome, result >>
              ELSE /\ calls' = Append(calls, Call("chat", FirstRequest, TRUE, reply))
                   /\ messages' = Append(messages, reply)
                   /\ Return("", None)
                   /\ UNCHANGED << recommended_title, final_text_content >>
     ELSE /\ calls' = Append(calls, Call("chat", FirstRequest, TRUE, reply))
          /\ messages' = Append(messages, reply)
          /\ final_text_content' = FallbackText(reply)
          /\ Return(FallbackText(reply), None)
          /\ UNCHANGED recommended_title
  /\ UNCHANGED << frontend, front, book_summaries_dict,
                  embedding_cache, turns, query,
                  history_before, query_embedding, retrieved_docs, previous >>

\* The failure of the first chat call caught and answered with the fallback.
FirstApiCallFails_caught ==
  /\ pc = "first_api_call"
  /\ calls' = Append(calls, Call("chat", FirstRequest, FALSE, None))
  /\ Return(FALLBACK, None)
  /\ UNCHANGED << frontend, front, book_summaries_dict,
                  embedding_cache, messages, turns, query,
                  history_before, query_embedding, retrieved_docs,
                  response_message, recommended_title, final_text_content,
                  previous >>

\* The failure of the first chat call noted in the history as a reply.
FirstApiCallFails_appends ==
  /\ pc = "first_api_call"
  /\ calls' = Append(calls, Call("chat", FirstRequest, FALSE, None))
  /\ messages' = Append(messages, AssistantMessage(FALLBACK, <<>>))
  /\ Raise("chat")
  /\ UNCHANGED << frontend, front, book_summaries_dict, embedding_cache,
                  turns, query, history_before, query_embedding,
                  retrieved_docs, response_message, recommended_title,
                  final_text_content, previous >>

\* The first chat call raises.
FirstApiCallFails ==
  /\ pc = "first_api_call"
  /\ calls' = Append(calls, Call("chat", FirstRequest, FALSE, None))
  /\ Raise("chat")
  /\ UNCHANGED << frontend, front, book_summaries_dict,
                  embedding_cache, messages, turns, query,
                  history_before, query_embedding, retrieved_docs,
                  response_message, recommended_title, final_text_content,
                  previous >>

MAX_TOKENS == 250

\* The second chat call sent like the first: the tool declared, no limit.
SecondRequest_like_first == [messages |-> messages, tools |-> tools, max_tokens |-> 0]

\* The second chat call: all of history, no tools, a token limit.
SecondRequest == [messages |-> messages, tools |-> <<>>, max_tokens |-> MAX_TOKENS]

\* The second chat call with its reply appended to the history.
SecondApiCall_appends(content) ==
  /\ pc = "second_api_call"
  /\ calls' = Append(calls, Call("chat", SecondRequest, TRUE,
                                 AssistantMessage(content, <<>>)))
  /\ messages' = Append(messages, AssistantMessage(content, <<>>))
  /\ final_text_content' = content
  /\ IF WantsImage(book_summaries_dict, recommended_title, content)
     THEN /\ pc' = "generate_image"
          /\ UNCHANGED << outcome, result >>
     ELSE Return(content, None)
  /\ UNCHANGED << frontend, front, book_summaries_dict, embedding_cache,
                  turns, query, history_before, query_embedding,
                  retrieved_docs, response_message, recommended_title,
                  previous >>

\* The second chat call returns a message with this content; its text is
\* the final text, and the image is generated when the guard holds.
SecondApiCall(content) ==
  /\ pc = "second_api_call"
  /\ calls' = Append(calls, Call("chat", SecondRequest, TRUE,
                                 AssistantMessage(content, <<>>)))
  /\ final_text_content' = content
  /\ IF WantsImage(book_summaries_dict, recommended_title, content)
     THEN /\ pc' = "generate_image"
          /\ UNCHANGED << outcome, result >>
     ELSE Return(content, None)
  /\ UNCHANGED << frontend, front, book_summaries_dict,
                  embedding_cache, messages, turns, query,
                  history_before, query_embedding, retrieved_docs,
                  response_message, recommended_title, previous >>

\* The failure of the second chat call passed over: the ask goes on to
\* the image with the fallback sentence as its text.
SecondApiCallFails_continues ==
  /\ pc = "second_api_call"
  /\ calls' = Append(calls, Call("chat", SecondRequest, FALSE, None))
  /\ final_text_content' = FALLBACK
  /\ pc' = "generate_image"
  /\ UNCHANGED << frontend, front, book_summaries_dict, embedding_cache,
                  messages, turns, query, history_before, query_embedding,
                  retrieved_docs, response_message, recommended_title,
                  previous, outcome, result >>

\* The second chat call made once more after a failure.
SecondApiCallFails_retried ==
  /\ pc = "second_api_call"
  /\ calls' = Append(calls, Call("chat", SecondRequest, FALSE, None))
  /\ IF Len(CallsOf("chat")) < 2
     THEN UNCHANGED << pc, outcome, result >>
     ELSE Raise("chat")
  /\ UNCHANGED << frontend, front, book_summaries_dict, embedding_cache,
                  messages, turns, query, history_before, query_embedding,
                  retrieved_docs, response_message, recommended_title,
                  final_text_content, previous >>

\* The second chat call raises.
SecondApiCallFails ==
  /\ pc = "second_api_call"
  /\ calls' = Append(calls, Call("chat", SecondRequest, FALSE, None))
  /\ Raise("chat")
  /\ UNCHANGED << frontend, front, book_summaries_dict,
                  embedding_cache, messages, turns, query,
                  history_before, query_embedding, retrieved_docs,
                  response_message, recommended_title, final_text_content,
                  previous >>

\* The image call outside any try: its failure leaves ask_book_chat.
GenerateImage_uncaught(ok) ==
  /\ pc = "generate_image"
  /\ calls' = Append(calls,
        Call("image",
             ImagePrompt(recommended_title,
                         DictGet(book_summaries_dict, recommended_title, "")),
             ok, IF ok THEN IMAGE_URL ELSE None))
  /\ IF ok THEN Return(final_text_content, IMAGE_URL) ELSE Raise("image")
  /\ UNCHANGED << frontend, front, book_summaries_dict,
                  embedding_cache, messages, turns, query,
                  history_before, query_embedding, retrieved_docs,
                  response_message, recommended_title, final_text_content,
                  previous >>

\* _generate_image_for_book: the image call returns the URL (ok), or raises
\* and the exception is caught there (lines 91-93), giving None.
GenerateImage(ok) ==
  /\ pc = "generate_image"
  /\ calls' = Append(calls,
        Call("image",
             ImagePrompt(recommended_title,
                         DictGet(book_summaries_dict, recommended_title, "")),
             ok, IF ok THEN IMAGE_URL ELSE None))
  /\ Return(final_text_content, IF ok THEN IMAGE_URL ELSE None)
  /\ UNCHANGED << frontend, front, book_summaries_dict,
                  embedding_cache, messages, turns, query,
                  history_before, query_embedding, retrieved_docs,
                  response_message, recommended_title, final_text_content,
                  previous >>

Next ==
  \/ \E q \in Queries : Ask(q)
  \/ \E q \in Queries : AskNewConversation(q)
  \/ EmbeddingHit
  \/ EmbeddingMiss
  \/ EmbeddingFails
  \/ \E docs \in RetrievalResults : QueryCollection(docs)
  \/ QueryCollectionFails
  \/ \E reply \in Phase1Replies : FirstApiCall(reply)
  \/ FirstApiCallFails
  \/ \E content \in Phase2Contents : SecondApiCall(content)
  \/ SecondApiCallFails
  \/ \E ok \in BOOLEAN : GenerateImage(ok)

Spec == Init /\ [][Next]_vars

\* A step of the running ask: an external call of ask_book_chat returns or
\* raises and the code runs on to the next call or to its end.
AskStep ==
  \/ EmbeddingHit
  \/ EmbeddingMiss
  \/ EmbeddingFails
  \/ \E docs \in RetrievalResults : QueryCollection(docs)
  \/ QueryCollectionFails
  \/ \E reply \in Phase1Replies : FirstApiCall(reply)
  \/ FirstApiCallFails
  \/ \E content \in Phase2Contents : SecondApiCall(content)
  \/ SecondApiCallFails
  \/ \E ok \in BOOLEAN : GenerateImage(ok)

\* ----------------------------------------------------------- front ends
\* What the moderation service may do with a text: answer that it is
\* clean, answer that it is flagged, or fail.
Verdicts == {"clean", "flagged", "error"}

\* A moderation check that lets a text through when the call fails.
is_safe_fail_open(verdict) == verdict # "flagged"

\* is_safe: 'not result.flagged', and False when the moderation call raises.
is_safe(verdict) == verdict = "clean"

\* What a front end does in one turn, in order.
Moderated(q, verdict) == [ev |-> "moderation", query |-> q, verdict |-> verdict]

\* ask_book_chat(q, ...) is called; ran tells whether its body runs.
AskCalled(q, history, ran) ==
  [ev |-> "ask", query |-> q, history |-> history, ran |-> ran]

\* A line written to the user's terminal.
Printed(text) == [ev |-> "print", text |-> text]

\* A line written to the server's output.
Logged(text) == [ev |-> "log", text |-> text]

\* The HTTP response: a ChatResponse (status 200) or an HTTPException.
Responded(status, text) == [ev |-> "response", status |-> status, text |-> text]

\* The value handed to generate_speech_stream.
Spoken(value) == [ev |-> "tts", input |-> value]

\* The interpreter's report of an exception that left main().
Traceback(err) == [ev |-> "traceback", error |-> err]

MODERATION_ERROR == "Error during moderation API call: "

\* What one run of is_safe leaves behind: the moderation call and, when
\* it raised, the line is_safe prints (on the terminal in the command-line
\* chat, on the server's output in the web server).
ModerationCheck(q, verdict, out) ==
  << Moderated(q, verdict) >>
  \o (IF verdict = "error" THEN << [ev |-> out, text |-> MODERATION_ERROR] >> ELSE <<>>)

EventsOf(ev) == SelectSeq(front.events, LAMBDA e : e.ev = ev)

Contains(s, c) == \E i \in 1..Len(s) : SubSeq(s, i, i) = c

\* str.isspace(): at least one character and only white space.
isspace(s) == Len(s) > 0 /\ \A i \in 1..Len(s) : SubSeq(s, i, i) = " "

\* repr() of None or of a str that needs no escapes: double quotes when
\* the text holds an apostrophe and no double quote.
repr(v) ==
  IF v = None THEN "None"
  ELSE IF Contains(v, "'") /\ ~Contains(v, "\"") THEN "\"" \o v \o "\""
  ELSE "'" \o v \o "'"

\* The value ask_book_chat returned, a tuple (text, image_url).
bot_response == << result.text, result.image_url >>

\* f"{bot_response}": str() of a tuple is the repr of its elements.
FormatTuple(t) == "(" \o repr(t[1]) \o ", " \o repr(t[2]) \o ")"

CLI_REJECTION == "Assistant: Please use appropriate language."

PROCESSING == "--- [Processing Request]... ---"

SEPARATOR == "--------------------------------------------------"

AUDIO_ERROR == "An error occurred while generating or playing the audio: "

\* The queries sent through the front ends.
FrontQueries == { AllQueries[1], AllQueries[4] }

\* What the user types or says: a query, or nothing.
CliInputs == FrontQueries \cup {""}

\* Turns of the command-line chat in which ask_book_chat is called.
MaxCliTurns == 2

\* One pass of the loop of main() that does not reach ask_book_chat: the
\* input is empty, or the moderation check does not pass.
CliTurnRejected(q, verdict) ==
  /\ frontend = "cli"
  /\ front.state = "ready"
  /\ pc = "idle"
  /\ \/ ~Truthy(q)
     \/ ~is_safe(verdict)
  /\ front' = [state |-> "ready",
               events |-> IF ~Truthy(q)
                          THEN << Printed(SEPARATOR) >>
                          ELSE ModerationCheck(q, verdict, "print")
                               \o << Printed(CLI_REJECTION) >>]
  /\ UNCHANGED << frontend, book_summaries_dict, embedding_cache, messages,
                  turns, pc, query, history_before, query_embedding,
                  retrieved_docs, response_message, recommended_title,
                  final_text_content, calls, previous, outcome, result >>

\* A loop that makes a new history for every ask.
CliTurnAsks_new_history(q, verdict) ==
  /\ frontend = "cli"
  /\ front.state = "ready"
  /\ Truthy(q)
  /\ is_safe(verdict)
  /\ turns < MaxCliTurns
  /\ turns' = turns + 1
  /\ Enter(q, << SYSTEM_MESSAGE >>)
  /\ front' = [state |-> "asking",
               events |-> ModerationCheck(q, verdict, "print")
                          \o << Printed(PROCESSING),
                                AskCalled(q, << SYSTEM_MESSAGE >>, TRUE) >>]
  /\ UNCHANGED frontend

\* One pass of the loop of main() whose query passes the moderation check:
\* asyncio.run(ask_book_chat(user_query, conversation_history)) starts.
CliTurnAsks(q, verdict) ==
  /\ frontend = "cli"
  /\ front.state = "ready"
  /\ Truthy(q)
  /\ is_safe(verdict)
  /\ turns < MaxCliTurns
  /\ turns' = turns + 1
  /\ Enter(q, messages)
  /\ front' = [state |-> "asking",
               events |-> ModerationCheck(q, verdict, "print")
                          \o << Printed(PROCESSING), AskCalled(q, messages, TRUE) >>]
  /\ UNCHANGED frontend

\* ask_book_chat returned to main(): the answer is printed and, when the
\* user says yes, handed to play_audio_response, which catches a failure
\* of the speech service.
CliShowsAnswer(listen, spoken) ==
  /\ frontend = "cli"
  /\ front.state = "asking"
  /\ pc = "idle"
  /\ outcome = "returned"
  /\ front' = [state |-> "ready",
               events |-> front.events
                          \o << Printed("\nAssistant: " \o FormatTuple(bot_response) \o "\n") >>
                          \o (IF listen
                              THEN << Spoken(bot_response) >>
                                   \o (IF spoken THEN <<>> ELSE << Printed(AUDIO_ERROR) >>)
                              ELSE <<>>)
                          \o << Printed(SEPARATOR) >>]
  /\ UNCHANGED << frontend, book_summaries_dict, embedding_cache, messages,
                  turns, pc, query, history_before, query_embedding,
                  retrieved_docs, response_message, recommended_title,
                  final_text_content, calls, previous, outcome, result >>

\* ask_book_chat raised: nothing in main() catches it, the exception
\* leaves main() and the interpreter ends with its traceback.
CliCrashes ==
  /\ frontend = "cli"
  /\ front.state = "asking"
  /\ pc = "idle"
  /\ outcome = "raised"
  /\ front' = [state |-> "crashed",
               events |-> Append(front.events, Traceback(result.error))]
  /\ UNCHANGED << frontend, book_summaries_dict, embedding_cache, messages,
                  turns, pc, query, history_before, query_embedding,
                  retrieved_docs, response_message, recommended_title,
                  final_text_content, calls, previous, outcome, result >>

EMPTY_QUERY == "Query cannot be empty."

HTTP_REJECTION ==
  "I can only discuss topics related to books. Please use appropriate language."

INTERNAL_ERROR == "An internal error occurred while processing your request."

LOG_PREFIX == "An unexpected error occurred in the chat endpoint: "

\* What ChatResponse(answer=...) raises for a value that is not a str.
VALIDATION_ERROR == "validation error for ChatResponse"

\* The queries of a ChatRequest: any str, blank ones included.
HttpInputs == FrontQueries \cup {"", "   "}

\* The value of the call expression rag_service.ask_book_chat(q, history):
\* ask_book_chat is a coroutine function and the call is not awaited, so
\* the value is a coroutine object and the body does not run.
Coroutine(q, history) ==
  [type |-> "coroutine", of |-> "ask_book_chat", query |-> q, messages |-> history]

\* ChatResponse(answer=value): the field is declared str, and validation
\* fails for a value of another type.
ValidAnswer(value) == value.type = "str"

\* The request body as the handler gets it (user_query = request.query).
Received(q) == [ev |-> "request", query |-> q]

\* A handler that runs the moderation check on every query and looks for
\* the empty query after it.
handle_chat_request_moderates_first(user_query, verdict) ==
  /\ frontend = "http"
  /\ pc = "idle"
  /\ front' =
       [state |-> "ready",
        events |->
          << Received(user_query) >> \o
          IF ~is_safe(verdict)
          THEN ModerationCheck(user_query, verdict, "log")
               \o << Responded(200, HTTP_REJECTION) >>
          ELSE IF ~Truthy(user_query) \/ isspace(user_query)
          THEN ModerationCheck(user_query, verdict, "log")
               \o << Responded(400, EMPTY_QUERY) >>
          ELSE LET response_text == Coroutine(user_query, << SYSTEM_MESSAGE >>)
               IN  ModerationCheck(user_query, verdict, "log")
                   \o << AskCalled(user_query, response_text.messages, FALSE) >>
                   \o (IF ValidAnswer(response_text)
                       THEN << Responded(200, response_text.value) >>
                       ELSE << Logged(LOG_PREFIX \o VALIDATION_ERROR),
                               Responded(500, INTERNAL_ERROR) >>)]
  /\ UNCHANGED << frontend, book_summaries_dict, embedding_cache, messages,
                  turns, pc, query, history_before, query_embedding,
                  retrieved_docs, response_message, recommended_title,
                  final_text_content, calls, previous, outcome, result >>

\* handle_chat_request, the whole handler for one POST /chat.
handle_chat_request(user_query, verdict) ==
  /\ frontend = "http"
  /\ pc = "idle"
  /\ front' =
       [state |-> "ready",
        events |->
          << Received(user_query) >> \o
          IF ~Truthy(user_query) \/ isspace(user_query)
          THEN << Responded(400, EMPTY_QUERY) >>
          ELSE IF ~is_safe(verdict)
          THEN ModerationCheck(user_query, verdict, "log")
               \o << Responded(200, HTTP_REJECTION) >>
          ELSE LET response_text == Coroutine(user_query, << SYSTEM_MESSAGE >>)
               IN  ModerationCheck(user_query, verdict, "log")
                   \o << AskCalled(user_query, response_text.messages, FALSE) >>
                   \o (IF ValidAnswer(response_text)
                       THEN << Responded(200, response_text.value) >>
                       ELSE << Logged(LOG_PREFIX \o VALIDATION_ERROR),
                               Responded(500, INTERNAL_ERROR) >>)]
  /\ UNCHANGED << frontend, book_summaries_dict, embedding_cache, messages,
                  turns, pc, query, history_before, query_embedding,
                  retrieved_docs, response_message, recommended_title,
                  final_text_content, calls, previous, outcome, result >>

\* The program started as the command-line chat or as the web server.
InitFront ==
  /\ Constructed
  /\ frontend \in {"cli", "http"}

\* What the services answer while a front end runs: no document or a full
\* list, a decline or a request for one title, one final text.
FrontRetrievals == { r \in RetrievalResults : Len(r) = 0 \/ Len(r) = n_results }

FrontReplies ==
  { AssistantMessage(DECLINE_SENTENCE, <<>>),
    AssistantMessage(None, << [id |-> "call_1", name |-> TOOL_NAME,
                               arguments |-> ArgsJSON("Book A")] >>) }

FrontContents == { FINAL_TEXT }

NextFront ==
  \/ \E q \in CliInputs, verdict \in Verdicts : CliTurnRejected(q, verdict)
  \/ \E q \in CliInputs, verdict \in Verdicts : CliTurnAsks(q, verdict)
  \/ \E listen, spoken \in BOOLEAN : CliShowsAnswer(listen, spoken)
  \/ CliCrashes
  \/ \E q \in HttpInputs, verdict \in Verdicts : handle_chat_request(q, verdict)
  \/ EmbeddingHit
  \/ EmbeddingMiss
  \/ EmbeddingFails
  \/ \E docs \in FrontRetrievals : QueryCollection(docs)
  \/ QueryCollectionFails
  \/ \E reply \in FrontReplies : FirstApiCall(reply)
  \/ FirstApiCallFails
  \/ \E content \in FrontContents : SecondApiCall(content)
  \/ SecondApiCallFails
  \/ \E ok \in BOOLEAN : GenerateImage(ok)

SpecFront == InitFront /\ [][NextFront]_vars

\* ------------------------------------------------------ the legacy chat
\* smart_librarian/rag_chat_cli.py: the command-line chat that holds its
\* own ask_book_chat, with a dict as embedding cache and a dict of final
\* responses in front of it.
LEGACY_PROMPT_HEAD ==
  "\nYou are a friendly and helpful assistant specializing in book recommendations.\n"
  \o "Your task is to recommend ONE book based on the user's interest, using ONLY the summaries provided below.\n\n"
  \o "**First, provide a brief, 1-2 sentence explanation for your choice.**\n\n"
  \o "After your explanation, you MUST call the 'get_summary_by_title' tool to retrieve the detailed summary for the recommended book.\n\n"
  \o "Available summaries (context):\n---\n"

LEGACY_PROMPT_MID == "\n---\n\nUser's interest: \""

LEGACY_PROMPT_TAIL == "\"\n"

LegacyPrompt(q, docs) ==
  LEGACY_PROMPT_HEAD \o Join(DELIMITER, docs) \o LEGACY_PROMPT_MID \o q \o LEGACY_PROMPT_TAIL

\* str(): the text of a str, "None" for None.
str(v) == IF v = None THEN "None" ELSE v

\* get_summary_by_title of the legacy chat; the title is None when the
\* arguments hold none (args.get("title")).
legacy_get_summary_by_title(dict, title) ==
  LET summary == DictGet(dict, title, None)
  IN  IF Truthy(summary) THEN summary ELSE NOT_FOUND(str(title))

\* Two words of OFFENSIVE_WORDS_NORMALIZED.
OFFENSIVE_WORDS_NORMALIZED == {"damn", "hell"}

\* A character of \w in lower-case ASCII text.
WordChar(c) ==
  \E i \in 1..37 : SubSeq("abcdefghijklmnopqrstuvwxyz0123456789_", i, i) = c

\* re.findall(r'\b\w+\b', s) as a set: the maximal runs of word
\* characters; word is the run being read.
RECURSIVE FindWords(_, _)
FindWords(s, word) ==
  IF Len(s) = 0 THEN (IF word = "" THEN {} ELSE {word})
  ELSE IF WordChar(SubSeq(s, 1, 1))
  THEN FindWords(SubSeq(s, 2, Len(s)), word \o SubSeq(s, 1, 1))
  ELSE (IF word = "" THEN {} ELSE {word}) \cup FindWords(SubSeq(s, 2, Len(s)), "")

\* A filter that compares the whole text with the list.
is_inappropriate_whole_text(text) == lower(text) \in OFFENSIVE_WORDS_NORMALIZED

\* is_inappropriate: some word of the lower-case text is in the list.
is_inappropriate(text) ==
  FindWords(lower(text), "") \cap OFFENSIVE_WORDS_NORMALIZED # {}

\* Asks made in one session of the legacy chat.
MaxLegacyTurns == 3

\* What the user types: a query, or a text with a word of the list.
LegacyQueries == Queries

LegacyInputs == LegacyQueries \cup {"Damn war"}

\* The inputs the word filter stops.
Rejected == { q \in LegacyInputs : is_inappropriate(q) }

\* The legacy chat waits for input: nothing done yet, no response cached.
LegacyReady == [state |-> "ready", events |-> <<>>, response_cache |-> <<>>]

ResponseKeys == { front.response_cache[i].key : i \in 1..Len(front.response_cache) }

\* A lookup that gives the first response stored, whatever the query.
CachedResponse_first(q) == front.response_cache[1].value

CachedResponse(q) ==
  front.response_cache[CHOOSE i \in 1..Len(front.response_cache) :
                         front.response_cache[i].key = q].value

\* d[k] = v on a dict kept as its entries in insertion order.
DictSet(d, k, v) ==
  IF \E i \in 1..Len(d) : d[i].key = k
  THEN [i \in 1..Len(d) |-> IF d[i].key = k THEN [key |-> k, value |-> v] ELSE d[i]]
  ELSE Append(d, [key |-> k, value |-> v])

\* What one turn shows once bot_response is known: the answer and, when
\* the user says yes, the speech, whose failure play_audio_response
\* catches.
LegacyShown(response, listen, spoken) ==
  << Printed("\nAssistant: " \o str(response) \o "\n") >>
  \o (IF listen
      THEN << Spoken(response) >>
           \o (IF spoken THEN <<>> ELSE << Printed(AUDIO_ERROR) >>)
      ELSE <<>>)
  \o << Printed(SEPARATOR) >>

\* input("You: ") gave q.
Typed(q) == [ev |-> "input", query |-> q]

CACHE_HIT == "--- [Cache Hit]: Using cached final response. ---"

CACHE_MISS == "--- [Cache Miss]: Processing new request. ---"

\* One pass of the loop of main() stopped by the word filter.
LegacyTurnRejected(q) ==
  /\ frontend = "legacy"
  /\ front.state = "ready"
  /\ pc = "idle"
  /\ q \in Rejected
  /\ front' = [front EXCEPT !.events = << Typed(q), Printed(CLI_REJECTION) >>]
  /\ UNCHANGED << frontend, book_summaries_dict, embedding_cache, messages,
                  turns, pc, query, history_before, query_embedding,
                  retrieved_docs, response_message, recommended_title,
                  final_text_content, calls, previous, outcome, result >>

\* One pass of the loop answered from response_cache: ask_book_chat is
\* not called.
LegacyTurnCached(q, listen, spoken) ==
  /\ frontend = "legacy"
  /\ front.state = "ready"
  /\ pc = "idle"
  /\ q \notin Rejected
  /\ q \in ResponseKeys
  /\ front' = [front EXCEPT !.events =
                              << Typed(q), Printed(CACHE_HIT) >>
                              \o LegacyShown(CachedResponse(q), listen, spoken)]
  /\ UNCHANGED << frontend, book_summaries_dict, embedding_cache, messages,
                  turns, pc, query, history_before, query_embedding,
                  retrieved_docs, response_message, recommended_title,
                  final_text_content, calls, previous, outcome, result >>

\* One pass of the loop with a query not in response_cache:
\* ask_book_chat(user_query, conversation_history) is called.
LegacyTurnAsks(q) ==
  /\ frontend = "legacy"
  /\ front.state = "ready"
  /\ q \notin Rejected
  /\ q \notin ResponseKeys
  /\ turns < MaxLegacyTurns
  /\ turns' = turns + 1
  /\ Enter(q, messages)
  /\ front' = [front EXCEPT !.state = "asking",
                            !.events = << Typed(q), Printed(CACHE_MISS),
                                          AskCalled(q, messages, TRUE) >>]
  /\ UNCHANGED frontend

\* The embedding of the query is in the dict: no call, the dict as it was.
\* main() never brings ask_book_chat here: a query asked before is answered
\* from response_cache when its ask returned, and the session has ended
\* when its ask raised.
LegacyEmbeddingHit ==
  /\ frontend = "legacy"
  /\ pc = "get_embedding"
  /\ query \in CacheKeys
  /\ query_embedding' = embedding_cache[CacheIndex(query)].value
  /\ pc' = "query_collection"
  /\ UNCHANGED << frontend, front, book_summaries_dict, embedding_cache,
                  messages, turns, query, history_before, retrieved_docs,
                  response_message, recommended_title, final_text_content,
                  calls, previous, outcome, result >>

\* The embedding is not in the dict and the service answers: it is stored,
\* and nothing is ever taken out.
LegacyEmbeddingMiss ==
  /\ frontend = "legacy"
  /\ pc = "get_embedding"
  /\ query \notin CacheKeys
  /\ calls' = Append(calls, Call("embed", query, TRUE, embeddings_create(query)))
  /\ query_embedding' = embeddings_create(query)
  /\ embedding_cache' = DictSet(embedding_cache, query, embeddings_create(query))
  /\ pc' = "query_collection"
  /\ UNCHANGED << frontend, front, book_summaries_dict, messages, turns,
                  query, history_before, retrieved_docs, response_message,
                  recommended_title, final_text_content, previous, outcome,
                  result >>

\* collection.query returns in the legacy ask_book_chat.
LegacyQueryCollection(docs) ==
  /\ frontend = "legacy"
  /\ pc = "query_collection"
  /\ calls' = Append(calls, Call("index", << query_embedding, n_results >>, TRUE, docs))
  /\ retrieved_docs' = docs
  /\ IF NoDocuments(docs)
     THEN /\ Return(APOLOGY, None)
          /\ UNCHANGED messages
     ELSE /\ messages' = Append(messages, UserMessage(LegacyPrompt(query, docs)))
          /\ pc' = "first_api_call"
          /\ UNCHANGED << outcome, result >>
  /\ UNCHANGED << frontend, front, book_summaries_dict, embedding_cache,
                  turns, query, history_before, query_embedding,
                  response_message, recommended_title, final_text_content,
                  previous >>

\* The first chat call returns in the legacy ask_book_chat: a call of the
\* lookup tool leads to the second chat call, anything else falls through
\* to the text of the reply or the fallback sentence.
LegacyFirstApiCall(reply) ==
  /\ frontend = "legacy"
  /\ pc = "first_api_call"
  /\ response_message' = reply
  /\ IF Len(reply.tool_calls) > 0 /\ HonoredCall(reply.tool_calls).name = TOOL_NAME
     THEN LET tool_call == HonoredCall(reply.tool_calls)
              args == json_loads(tool_call.arguments)
          IN  IF ~args.ok
              THEN /\ calls' = Append(calls, Call("chat", FirstRequest, TRUE, reply))
                   /\ messages' = Append(messages, reply)
                   /\ Raise("json")
              ELSE LET title == DictGet(args.obj, "title", None)
                       tool_response ==
                         legacy_get_summary_by_title(book_summaries_dict, title)
                   IN  /\ calls' = calls \o
                            << Call("chat", FirstRequest, TRUE, reply),
                               Call("lookup", title, TRUE, tool_response) >>
                       /\ messages' =
                            Append(Append(messages, reply),
                                   ToolMessage(tool_call.id, tool_call.name,
                                               tool_response))
                       /\ pc' = "second_api_call"
                       /\ UNCHANGED << outcome, result >>
     ELSE /\ calls' = Append(calls, Call("chat", FirstRequest, TRUE, reply))
          /\ messages' = Append(messages, reply)
          /\ Return(FallbackText(reply), None)
  /\ UNCHANGED << frontend, front, book_summaries_dict, embedding_cache,
                  turns, query, history_before, query_embedding,
                  retrieved_docs, recommended_title, final_text_content,
                  previous >>

\* The second chat call returns in the legacy ask_book_chat: the content
\* of its message is returned as it is.
LegacySecondApiCall(content) ==
  /\ frontend = "legacy"
  /\ pc = "second_api_call"
  /\ calls' = Append(calls, Call("chat", SecondRequest, TRUE,
                                 AssistantMessage(content, <<>>)))
  /\ Return(content, None)
  /\ UNCHANGED << frontend, front, book_summaries_dict, embedding_cache,
                  messages, turns, query, history_before, query_embedding,
                  retrieved_docs, response_message, recommended_title,
                  final_text_content, previous >>

\* ask_book_chat returned to main(): the response is stored in
\* response_cache and shown.
LegacyShowsAnswer(listen, spoken) ==
  /\ frontend = "legacy"
  /\ front.state = "asking"
  /\ pc = "idle"
  /\ outcome = "returned"
  /\ front' = [state |-> "ready",
               events |-> front.events \o LegacyShown(result.text, listen, spoken),
               response_cache |-> DictSet(front.response_cache, query, result.text)]
  /\ UNCHANGED << frontend, book_summaries_dict, embedding_cache, messages,
                  turns, pc, query, history_before, query_embedding,
                  retrieved_docs, response_message, recommended_title,
                  final_text_content, calls, previous, outcome, result >>

\* ask_book_chat raised: nothing in main() catches it.
LegacyCrashes ==
  /\ frontend = "legacy"
  /\ front.state = "asking"
  /\ pc = "idle"
  /\ outcome = "raised"
  /\ front' = [front EXCEPT !.state = "crashed",
                            !.events = Append(front.events, Traceback(result.error))]
  /\ UNCHANGED << frontend, book_summaries_dict, embedding_cache, messages,
                  turns, pc, query, history_before, query_embedding,
                  retrieved_docs, response_message, recommended_title,
                  final_text_content, calls, previous, outcome, result >>

\* The legacy chat started: the record table loaded, both dicts empty.
InitLegacy ==
  /\ book_summaries_dict \in RecordTables
  /\ embedding_cache = <<>>
  /\ messages = << SYSTEM_MESSAGE >>
  /\ turns = 0
  /\ pc = "idle"
  /\ query = ""
  /\ history_before = << SYSTEM_MESSAGE >>
  /\ query_embedding = <<>>
  /\ retrieved_docs = <<>>
  /\ response_message = NoMessage
  /\ recommended_title = ""
  /\ final_text_content = ""
  /\ calls = <<>>
  /\ previous = [same |-> FALSE, embed |-> <<>>]
  /\ outcome = "none"
  /\ result = NoResult
  /\ frontend = "legacy"
  /\ front = LegacyReady

NextLegacy ==
  \/ \E q \in LegacyInputs : LegacyTurnRejected(q)
  \/ \E q \in LegacyInputs, listen, spoken \in BOOLEAN : LegacyTurnCached(q, listen, spoken)
  \/ \E q \in LegacyInputs : LegacyTurnAsks(q)
  \/ LegacyEmbeddingMiss
  \/ EmbeddingFails
  \/ \E docs \in FrontRetrievals : LegacyQueryCollection(docs)
  \/ QueryCollectionFails
  \/ \E reply \in FrontReplies : LegacyFirstApiCall(reply)
  \/ FirstApiCallFails
  \/ \E content \in FrontContents : LegacySecondApiCall(content)
  \/ SecondApiCallFails
  \/ \E listen, spoken \in BOOLEAN : LegacyShowsAnswer(listen, spoken)
  \/ LegacyCrashes

SpecLegacy == InitLegacy /\ [][NextLegacy]_vars

\* ------------------------------------------- the image for a book
\* _generate_image_for_book(title, summary) taken by itself, on summaries
\* shorter and longer than the part of them that goes into the prompt.
DIGITS == "0123456789"

\* A text of n characters: the digits 0 to 9 over and over.
RECURSIVE Text(_)
Text(n) == IF n < 10 THEN SubSeq(DIGITS, 1, n) ELSE DIGITS \o Text(n - 10)

SummaryLengths ==
  {0, 1, 2, 14, 100, 250, 498, 499, 500, 501, 502, 510, 600, 750, 999, 1000, 1001}

SummaryInputs == { Text(n) : n \in SummaryLengths }

ImageTitles == {"Book A", "Book B", "1984"}

\* The call _generate_image_for_book(title, summary) is about to run.
ImageReady(title, summary) ==
  [state |-> "ready", events |-> <<>>, title |-> title, summary |-> summary,
   prompt |-> None, image_url |-> None]

\* _generate_image_for_book, the whole method: the prompt is built and
\* sent to the image service, which returns a URL, or raises and the
\* method returns None.
generate_image_for_book(ok) ==
  /\ frontend = "image"
  /\ front.state = "ready"
  /\ front' = [front EXCEPT
                 !.state = "returned",
                 !.prompt = ImagePrompt(front.title, front.summary),
                 !.image_url = IF ok THEN IMAGE_URL ELSE None]
  /\ UNCHANGED << frontend, book_summaries_dict, embedding_cache, messages,
                  turns, pc, query, history_before, query_embedding,
                  retrieved_docs, response_message, recommended_title,
                  final_text_content, calls, previous, outcome, result >>

InitImage ==
  /\ book_summaries_dict \in RecordTables
  /\ embedding_cache = <<>>
  /\ messages = << SYSTEM_MESSAGE >>
  /\ turns = 0
  /\ pc = "idle"
  /\ query = ""
  /\ history_before = << SYSTEM_MESSAGE >>
  /\ query_embedding = <<>>
  /\ retrieved_docs = <<>>
  /\ response_message = NoMessage
  /\ recommended_title = ""
  /\ final_text_content = ""
  /\ calls = <<>>
  /\ previous = [same |-> FALSE, embed |-> <<>>]
  /\ outcome = "none"
  /\ result = NoResult
  /\ frontend = "image"
  /\ front \in { ImageReady(t, sm) : t \in ImageTitles, sm \in SummaryInputs }

NextImage == \E ok \in BOOLEAN : generate_image_for_book(ok)

SpecImage == InitImage /\ [][NextImage]_vars

\* ------------------------------------------------- concurrent callers
\* The service called from several threads at once, each thread running
\* asyncio.run(ask_book_chat(query, history)) on a history of its own.
\* ask_book_chat has no await: inside one event loop an ask runs from
\* entry to return without another ask in between, so threads are the one
\* way two asks overlap.  The variables messages .. result are the frame
\* of the thread that holds the interpreter; front.parked holds the frames
\* of the others.  book_summaries_dict and embedding_cache belong to the
\* one RAGService and are shared.
NumThreads == 2

Threads == 1..NumThreads

\* The frame of the ask of the running thread: the parameters and locals
\* of ask_book_chat, with the log kept of it.
Frame ==
  [messages |-> messages, turns |-> turns, pc |-> pc, query |-> query,
   history_before |-> history_before, query_embedding |-> query_embedding,
   retrieved_docs |-> retrieved_docs, response_message |-> response_message,
   recommended_title |-> recommended_title,
   final_text_content |-> final_text_content, calls |-> calls,
   previous |-> previous, outcome |-> outcome, result |-> result]

\* A thread that has not asked yet.
NoFrame ==
  [messages |-> << SYSTEM_MESSAGE >>, turns |-> 0, pc |-> "idle", query |-> "",
   history_before |-> << SYSTEM_MESSAGE >>, query_embedding |-> <<>>,
   retrieved_docs |-> <<>>, response_message |-> NoMessage,
   recommended_title |-> "", final_text_content |-> "", calls |-> <<>>,
   previous |-> [same |-> FALSE, embed |-> <<>>], outcome |-> "none",
   result |-> NoResult]

ThreadsReady ==
  [state |-> "ready", events |-> <<>>, running |-> 1,
   parked |-> [t \in Threads |-> NoFrame]]

\* The frame of thread t, running or parked.
FrameOf(t) == IF t = front.running THEN Frame ELSE front.parked[t]

\* A switch that leaves the history where it is: the two threads would
\* be passing one list to their asks.
Switch_one_history(t) ==
  /\ frontend = "threads"
  /\ t # front.running
  /\ front' = [front EXCEPT !.running = t,
                            !.parked = [u \in Threads |->
                                          IF u = t THEN NoFrame
                                          ELSE IF u = front.running THEN Frame
                                          ELSE front.parked[u]]]
  /\ turns' = front.parked[t].turns
  /\ pc' = front.parked[t].pc
  /\ query' = front.parked[t].query
  /\ history_before' = front.parked[t].history_before
  /\ query_embedding' = front.parked[t].query_embedding
  /\ retrieved_docs' = front.parked[t].retrieved_docs
  /\ response_message' = front.parked[t].response_message
  /\ recommended_title' = front.parked[t].recommended_title
  /\ final_text_content' = front.parked[t].final_text_content
  /\ calls' = front.parked[t].calls
  /\ previous' = front.parked[t].previous
  /\ outcome' = front.parked[t].outcome
  /\ result' = front.parked[t].result
  /\ UNCHANGED << frontend, book_summaries_dict, embedding_cache, messages >>

\* The interpreter passes from the running thread to thread t: the frame
\* of the one is kept, the frame of the other is taken up again.  The
\* shared objects are not touched.
Switch(t) ==
  /\ frontend = "threads"
  /\ t # front.running
  /\ front' = [front EXCEPT !.running = t,
                            !.parked = [u \in Threads |->
                                          IF u = t THEN NoFrame
                                          ELSE IF u = front.running THEN Frame
                                          ELSE front.parked[u]]]
  /\ messages' = front.parked[t].messages
  /\ turns' = front.parked[t].turns
  /\ pc' = front.parked[t].pc
  /\ query' = front.parked[t].query
  /\ history_before' = front.parked[t].history_before
  /\ query_embedding' = front.parked[t].query_embedding
  /\ retrieved_docs' = front.parked[t].retrieved_docs
  /\ response_message' = front.parked[t].response_message
  /\ recommended_title' = front.parked[t].recommended_title
  /\ final_text_content' = front.parked[t].final_text_content
  /\ calls' = front.parked[t].calls
  /\ previous' = front.parked[t].previous
  /\ outcome' = front.parked[t].outcome
  /\ result' = front.parked[t].result
  /\ UNCHANGED << frontend, book_summaries_dict, embedding_cache >>

\* The running thread starts an ask for a conversation of its own: the
\* history it passes is a list no other thread holds.
ThreadAsk(q) ==
  /\ frontend = "threads"
  /\ turns' = 1
  /\ Enter(q, << SYSTEM_MESSAGE >>)
  /\ UNCHANGED << frontend, front >>

\* lru_cache, the key looked up and not found: the wrapped function is
\* called, and while the embedding service works on the request the
\* interpreter is free for the other threads.
ThreadEmbeddingMiss ==
  /\ frontend = "threads"
  /\ pc = "get_embedding"
  /\ query \notin CacheKeys
  /\ pc' = "embedding_in_flight"
  /\ UNCHANGED << frontend, front, book_summaries_dict, embedding_cache,
                  messages, turns, query, history_before, query_embedding,
                  retrieved_docs, response_message, recommended_title,
                  final_text_content, calls, previous, outcome, result >>

\* A store that does not look whether the key came in during the call.
LruStore_blind(cache, q, v) == CacheStore(cache, q, v)

\* lru_cache after the wrapped function returned: when the same key was
\* added during the call the cache is left as it is, else the result is
\* stored as on any miss.
LruStore(cache, q, v) ==
  IF \E i \in 1..Len(cache) : cache[i].key = q
  THEN cache
  ELSE CacheStore(cache, q, v)

\* The embedding service answers the call in flight.
ThreadEmbeddingReturns ==
  /\ pc = "embedding_in_flight"
  /\ calls' = Append(calls, Call("embed", query, TRUE, embeddings_create(query)))
  /\ query_embedding' = embeddings_create(query)
  /\ embedding_cache' = LruStore(embedding_cache, query, embeddings_create(query))
  /\ pc' = "query_collection"
  /\ UNCHANGED << frontend, front, book_summaries_dict,
                  messages, turns, query, history_before,
                  retrieved_docs, response_message, recommended_title,
                  final_text_content, previous, outcome, result >>

\* The call in flight raises: nothing is stored.
ThreadEmbeddingFails ==
  /\ pc = "embedding_in_flight"
  /\ calls' = Append(calls, Call("embed", query, FALSE, None))
  /\ Raise("embedding")
  /\ UNCHANGED << frontend, front, book_summaries_dict,
                  embedding_cache, messages, turns, query,
                  history_before, query_embedding, retrieved_docs,
                  response_message, recommended_title, final_text_content,
                  previous >>

InitThreads ==
  /\ book_summaries_dict \in RecordTables
  /\ embedding_cache = <<>>
  /\ messages = << SYSTEM_MESSAGE >>
  /\ turns = 0
  /\ pc = "idle"
  /\ query = ""
  /\ history_before = << SYSTEM_MESSAGE >>
  /\ query_embedding = <<>>
  /\ retrieved_docs = <<>>
  /\ response_message = NoMessage
  /\ recommended_title = ""
  /\ final_text_content = ""
  /\ calls = <<>>
  /\ previous = [same |-> FALSE, embed |-> <<>>]
  /\ outcome = "none"
  /\ result = NoResult
  /\ frontend = "threads"
  /\ front = ThreadsReady

\* Whole asks side by side, on the queries of the front ends.
NextThreads ==
  \/ \E t \in Threads : Switch(t)
  \/ \E q \in FrontQueries : ThreadAsk(q)
  \/ EmbeddingHit
  \/ ThreadEmbeddingMiss
  \/ ThreadEmbeddingReturns
  \/ ThreadEmbeddingFails
  \/ \E docs \in FrontRetrievals : QueryCollection(docs)
  \/ QueryCollectionFails
  \/ \E reply \in FrontReplies : FirstApiCall(reply)
  \/ FirstApiCallFails
  \/ \E content \in FrontContents : SecondApiCall(content)
  \/ SecondApiCallFails
  \/ \E ok \in BOOLEAN : GenerateImage(ok)

SpecThreads == InitThreads /\ [][NextThreads]_vars

\* The embedding calls of the threads side by side, on more queries than
\* the cache has room for; the index finds nothing (or fails), so that
\* each ask ends after its embedding call and the thread can ask again.
NextEmbeddings ==
  \/ \E t \in Threads : Switch(t)
  \/ \E q \in Queries : ThreadAsk(q)
  \/ EmbeddingHit
  \/ ThreadEmbeddingMiss
  \/ ThreadEmbeddingReturns
  \/ ThreadEmbeddingFails
  \/ QueryCollection(<<>>)
  \/ QueryCollectionFails

SpecEmbeddings == InitThreads /\ [][NextEmbeddings]_vars

\* ------------------------------------------------------------ properties
ChatCalls == CallsOf("chat")

\* The first chat call of this ask returned a reply.
Phase1Replied == Len(ChatCalls) >= 1 /\ ChatCalls[1].ok

Phase1Reply == ChatCalls[1].ret

\* The first reply asks for the lookup tool with well-formed arguments
\* naming title t (t is "" when the arguments hold no title).
Phase1Requests(t) ==
  /\ Phase1Replied
  /\ Len(Phase1Reply.tool_calls) > 0
  /\ Phase1Reply.tool_calls[1].name = "get_summary_by_title"
  /\ \/ Phase1Reply.tool_calls[1].arguments = "{\"title\": \"" \o t \o "\"}"
     \/ t = "" /\ Phase1Reply.tool_calls[1].arguments = "{}"

TitlesAsked == TitleInputs \cup {""}

\* C1: when the vector index returns zero documents, the ask returns the
\* fixed apology text with no image URL, as a normal return and not as an
\* error, and no chat call is made in that ask.
C1_EmptyRetrievalDeclines ==
  (\E i \in 1..Len(calls) :
      calls[i].op = "index" /\ calls[i].ok /\ Len(calls[i].ret) = 0)
  => /\ outcome = "returned"
     /\ result.text =
          "I'm sorry, I couldn't find any books matching your interest. Could you please rephrase?"
     /\ result.image_url = None
     /\ result.error = None
     /\ Len(ChatCalls) = 0

C1_Witness ==
  /\ \E i \in 1..Len(calls) :
        calls[i].op = "index" /\ calls[i].ok /\ Len(calls[i].ret) = 0
  /\ outcome = "returned"

\* C2 as stated: when the first reply holds no tool call, the ask returns
\* exactly that reply's text, with no image URL, and runs neither the
\* lookup nor the image generation.
C2_Original ==
  (Phase1Replied /\ Len(Phase1Reply.tool_calls) = 0)
  => /\ outcome = "returned"
     /\ result.text = Phase1Reply.content
     /\ result.image_url = None
     /\ Len(CallsOf("lookup")) = 0
     /\ Len(CallsOf("image")) = 0

\* C2 amended: when the first reply holds no tool call, the ask returns
\* that reply's text when it is a non-empty string and the fixed sentence
\* "I was unable to generate a response." when it is empty or missing; in
\* both cases with no image URL, no lookup and no image generation.
C2_NoToolCallDeclines ==
  (Phase1Replied /\ Len(Phase1Reply.tool_calls) = 0)
  => /\ outcome = "returned"
     /\ result.text =
          IF Phase1Reply.content \notin {None, ""}
          THEN Phase1Reply.content
          ELSE "I was unable to generate a response."
     /\ result.image_url = None
     /\ result.error = None
     /\ Len(CallsOf("lookup")) = 0
     /\ Len(CallsOf("image")) = 0

C2_Witness ==
  /\ Phase1Replied
  /\ Len(Phase1Reply.tool_calls) = 0
  /\ Phase1Reply.content = DECLINE_SENTENCE
  /\ outcome = "returned"
  /\ result.text = DECLINE_SENTENCE

\* C3: when retrieval is non-empty and the first reply asks for the lookup
\* of a title T that is a key of the record table, the tool message given
\* to the second chat call carries exactly the stored summary of T, the
\* text the ask returns is the content of the second reply, and the
\* recommended title is T.
C3_Claim ==
  \A t \in DOMAIN book_summaries_dict :
    (Phase1Requests(t) /\ Len(ChatCalls) = 2)
    => LET sent == ChatCalls[2].arg.messages
       IN  /\ sent[Len(sent)].role = "tool"
           /\ sent[Len(sent)].content = book_summaries_dict[t]
           /\ recommended_title = t
           /\ (outcome = "returned" /\ ChatCalls[2].ok
                 => result.text = ChatCalls[2].ret.content)

\* C4: when the first reply asks for a title that is not in the record
\* table, the lookup does not fail the ask: the tool message appended to
\* the history carries the not-found text for that title, the second chat
\* call still runs, and the only way such an ask raises is that second
\* chat call raising.
C4_UnknownTitleGoesToModel ==
  \A t \in TitlesAsked \ DOMAIN book_summaries_dict :
    Phase1Requests(t)
    => LET n == Len(history_before)
       IN  /\ Len(messages) = n + 3
           /\ messages[n + 2] = Phase1Reply
           /\ messages[n + 3].role = "tool"
           /\ messages[n + 3].tool_call_id = Phase1Reply.tool_calls[1].id
           /\ messages[n + 3].content =
                "The summary for the book '" \o t \o "' was not found."
           /\ \/ pc = "second_api_call"
              \/ /\ Len(ChatCalls) = 2
                 /\ ChatCalls[2].arg.messages = messages
           /\ outcome = "raised"
                => /\ result.error = "chat"
                   /\ Len(ChatCalls) = 2
                   /\ ~ChatCalls[2].ok

C4_Witness ==
  /\ Phase1Requests("book a")
  /\ Len(ChatCalls) = 2
  /\ outcome = "returned"
  /\ result.text = FINAL_TEXT

\* C5: when the image generation call fails, the ask still returns
\* normally, with a non-empty text and no image URL.
C5_ImageFailureIsNoImage ==
  (\E i \in 1..Len(calls) : calls[i].op = "image" /\ ~calls[i].ok)
  => /\ outcome = "returned"
     /\ result.error = None
     /\ result.text \notin {None, ""}
     /\ result.image_url = None

C5_Witness ==
  /\ \E i \in 1..Len(calls) : calls[i].op = "image" /\ ~calls[i].ok
  /\ outcome = "returned"

\* C6 as stated: two asks in a row with the identical query string call
\* the embedding service at most once between them.
C6_Original ==
  previous.same => Len(previous.embed) + Len(CallsOf("embed")) <= 1

\* C6 amended: two asks in a row with the identical query string call the
\* embedding service at most once between them provided the first ask's
\* embedding call did not fail: the second ask is then a cache hit that
\* gets the stored vector, equal to the service's, with no call.  (A failed
\* embedding call stores nothing, so the next ask calls the service again.)
C6_RepeatedQueryHitsCache ==
  (/\ previous.same
   /\ \A i \in 1..Len(previous.embed) : previous.embed[i].ok)
  => /\ Len(previous.embed) <= 1
     /\ Len(CallsOf("embed")) = 0
     /\ pc # "get_embedding" => query_embedding = embeddings_create(query)

C6_Witness ==
  /\ previous.same
  /\ Len(previous.embed) = 1
  /\ previous.embed[1].ok
  /\ outcome = "returned"
  /\ Len(CallsOf("embed")) = 0
  /\ Len(CallsOf("index")) = 1

\* C7: the prompt built for the first chat call holds every retrieved
\* document's text verbatim, in the order retrieved, each separated from
\* the next by the delimiter line, followed by the raw query.
RECURSIVE DocumentsAt(_, _, _)
\* The documents of docs stand in text from position p on, joined by the
\* delimiter; the value is the position after the last, or 0 when not.
DocumentsAt(text, p, docs) ==
  LET d == docs[1]
      q == p + Len(d)
  IN  IF q - 1 > Len(text) \/ SubSeq(text, p, q - 1) # d THEN 0
      ELSE IF Len(docs) = 1 THEN q
      ELSE IF q + 6 > Len(text) \/ SubSeq(text, q, q + 6) # "\n\n---\n\n" THEN 0
      ELSE DocumentsAt(text, q + 7, Tail(docs))

C7_PromptHoldsDocumentsInOrder ==
  pc = "first_api_call"
  => LET prompt == messages[Len(messages)].content
         n == Len(prompt)
     IN  /\ messages[Len(messages)].role = "user"
         /\ \E k \in 1..n :
              LET e == DocumentsAt(prompt, n + 1 - k, retrieved_docs)
              IN  /\ e > 0
                  /\ \E j \in e..n :
                       /\ j + Len(query) - 1 <= n
                       /\ SubSeq(prompt, j, j + Len(query) - 1) = query

C7_Witness ==
  /\ pc = "first_api_call"
  /\ Len(retrieved_docs) = 3
  /\ retrieved_docs[1] # retrieved_docs[2]

\* C8: the lookup is a total exact-match function: for a title that is a
\* key of the record table it returns the stored summary, for any other
\* title the not-found text with that title.
C8_Claim ==
  \A i \in 1..Len(calls) :
    calls[i].op = "lookup"
    => calls[i].ret =
         IF calls[i].arg \in DOMAIN book_summaries_dict
         THEN book_summaries_dict[calls[i].arg]
         ELSE "The summary for the book '" \o calls[i].arg \o "' was not found."

\* C9: when the embedding call fails, the failure leaves the ask: the
\* embedding call is not made again, no index query and no chat call is
\* made, and the caller's history is as it was before the ask.
C9_EmbeddingFailurePropagates ==
  (\E i \in 1..Len(calls) : calls[i].op = "embed" /\ ~calls[i].ok)
  => /\ outcome = "raised"
     /\ result.error = "embedding"
     /\ pc = "idle"
     /\ Len(calls) = 1
     /\ messages = history_before

C9_Witness ==
  /\ Len(calls) = 1
  /\ calls[1].op = "embed"
  /\ ~calls[1].ok
  /\ outcome = "raised"

\* C10: when the first or the second chat call raises, the ask raises: the
\* failed call is the last thing the ask does, so it is not made again, no
\* later phase runs and no image is generated.
C10_ChatFailurePropagates ==
  \A i \in 1..Len(calls) :
    (calls[i].op = "chat" /\ ~calls[i].ok)
    => /\ i = Len(calls)
       /\ pc = "idle"
       /\ outcome = "raised"
       /\ result.error = "chat"
       /\ Len(ChatCalls) <= 2
       /\ Len(CallsOf("image")) = 0
       /\ Len(ChatCalls) = 1 => Len(CallsOf("lookup")) = 0

C10_Witness ==
  /\ Len(ChatCalls) = 2
  /\ ChatCalls[1].ok
  /\ ~ChatCalls[2].ok
  /\ outcome = "raised"


\* ------------------------------------------- properties of the front ends
ModerationEvents == EventsOf("moderation")

AskEvents == EventsOf("ask")

Responses == EventsOf("response")

\* C11: for a non-blank query that passes the moderation check, the POST
\* /chat endpoint runs ask_book_chat for that query and, when the ask
\* returns, answers with a ChatResponse whose answer is the text the ask
\* returned.
C11_Claim ==
  (/\ frontend = "http"
   /\ Len(ModerationEvents) = 1
   /\ ModerationEvents[1].verdict = "clean")
  => /\ Len(AskEvents) = 1
     /\ AskEvents[1].query = ModerationEvents[1].query
     /\ AskEvents[1].ran
     /\ outcome # "raised"
        => /\ Len(Responses) = 1
           /\ Responses[1].status = 200
           /\ Responses[1].text = result.text

\* C12: in the web server and in the command-line chat, ask_book_chat is
\* called for a query only after the moderation check of that same query
\* answered that it is clean; when the check flags the query, or the
\* moderation call itself fails, no ask is called for it.
C12_AskOnlyAfterCleanModeration ==
  /\ \A i \in 1..Len(front.events) :
       front.events[i].ev = "ask"
       => \E j \in 1..(i - 1) :
            /\ front.events[j].ev = "moderation"
            /\ front.events[j].query = front.events[i].query
            /\ front.events[j].verdict = "clean"
  /\ (\E j \in 1..Len(front.events) :
        /\ front.events[j].ev = "moderation"
        /\ front.events[j].verdict \in {"flagged", "error"})
     => /\ Len(AskEvents) = 0
        /\ outcome # "running"
  /\ (frontend \in {"cli", "http"} /\ outcome = "running")
     => /\ Len(AskEvents) = 1
        /\ AskEvents[1].query = query

C12_Witness ==
  /\ frontend = "cli"
  /\ outcome = "running"
  /\ Len(ModerationEvents) = 1
  /\ ModerationEvents[1].verdict = "clean"
  /\ Len(AskEvents) = 1

\* C13: whenever ask_book_chat fails with an upstream failure, the front
\* end that called it (web server, command-line chat) turns the failure
\* into a generic message without the upstream error text, and goes on
\* serving later requests.
C13_Claim ==
  (frontend \in {"cli", "http"} /\ outcome = "raised" /\ front.state # "asking")
  => /\ front.state = "ready"
     /\ Len(EventsOf("traceback")) = 0


\* ------------------------------------------- properties of the protocol
\* The position in the call log of the first chat call.
FirstChatAt == CHOOSE i \in 1..Len(calls) : calls[i].op = "chat"

\* C14: the two-phase protocol ends in one of two ways only: when the
\* phase-1 reply holds a tool call, the lookup runs, a tool-role message is
\* appended to the history and a second chat call is made, in that order,
\* before the ask returns; when it holds none, the ask returns as a decline
\* after a single chat call.
C14_Claim ==
  (outcome = "returned" /\ Phase1Replied)
  => IF Len(Phase1Reply.tool_calls) > 0
     THEN /\ Len(calls) >= FirstChatAt + 2
          /\ calls[FirstChatAt + 1].op = "lookup"
          /\ calls[FirstChatAt + 2].op = "chat"
          /\ Len(messages) = Len(history_before) + 3
          /\ messages[Len(messages)].role = "tool"
          /\ calls[FirstChatAt + 2].arg.messages = messages
     ELSE /\ Len(ChatCalls) = 1
          /\ Len(CallsOf("lookup")) = 0
          /\ result.image_url = "<None>"


\* The messages this ask has appended to the caller's history.
Appended == SubSeq(messages, Len(history_before) + 1, Len(messages))

ToolMessagesAppended == SelectSeq(Appended, LAMBDA m : m.role = "tool")

Phase2Replied == Len(ChatCalls) = 2 /\ ChatCalls[2].ok

\* C16: one ask changes the caller's history by appends only, and by these
\* in this order: the augmented user prompt, then the model's first reply,
\* then, on the tool path only, the tool-result message.  The second reply
\* is the return value and is not appended.  The history has grown by 3
\* messages when a recommendation is returned and by 2 when the model's
\* own decline is returned.
C16_HistoryGrowsByTheTurn ==
  /\ Len(messages) >= Len(history_before)
  /\ SubSeq(messages, 1, Len(history_before)) = history_before
  /\ Len(Appended) <= 3
  /\ Len(Appended) >= 1
     => /\ Appended[1].role = "user"
        /\ Len(CallsOf("index")) = 1
  /\ Len(Appended) >= 2
     => /\ Phase1Replied
        /\ Appended[2] = Phase1Reply
  /\ Len(Appended) = 3
     => /\ Appended[3].role = "tool"
        /\ Len(Phase1Reply.tool_calls) > 0
        /\ Len(CallsOf("lookup")) = 1
  /\ Phase2Replied
     => /\ Len(Appended) = 3
        /\ \A i \in 1..3 : Appended[i] # ChatCalls[2].ret
  /\ (outcome = "returned" /\ Phase2Replied) => Len(messages) = Len(history_before) + 3
  /\ (outcome = "returned" /\ Phase1Replied /\ Len(Phase1Reply.tool_calls) = 0)
     => Len(messages) = Len(history_before) + 2

C16_Witness ==
  /\ outcome = "returned"
  /\ Phase2Replied
  /\ ChatCalls[2].ret.content = "A fine match. Here is the full summary."
  /\ Len(messages) = Len(history_before) + 3


ImageCalls == CallsOf("image")

\* C17: the image service is called in an ask only if the second chat call
\* of that ask returned, the title taken from the first reply is a key of
\* the record table and the final text is not empty; so an image URL is
\* returned only on that path.
C17_ImageOnlyAfterRecommendation ==
  /\ Len(ImageCalls) > 0
     => /\ Phase2Replied
        /\ calls[Len(calls)].op = "image"
        /\ calls[Len(calls) - 1] = ChatCalls[2]
        /\ Phase1Requests(recommended_title)
        /\ recommended_title \in DOMAIN book_summaries_dict
        /\ ChatCalls[2].ret.content \notin {"<None>", ""}
        /\ outcome = "returned" => result.text = ChatCalls[2].ret.content
  /\ result.image_url # "<None>"
     => /\ Len(ImageCalls) = 1
        /\ ImageCalls[1].ok
        /\ result.image_url = ImageCalls[1].ret

C17_Witness ==
  /\ outcome = "returned"
  /\ Len(ImageCalls) = 1
  /\ result.image_url = "https://images.example/1.png"
  /\ recommended_title = "Book A"


\* The first chat call of this ask was made and raised.
Phase1Failed == Len(ChatCalls) >= 1 /\ ~ChatCalls[1].ok

\* C18: when the first chat call fails, the ask ends there and the
\* caller's history holds no assistant reply and no tool-result message of
\* the abandoned turn: the one message the ask has appended is the user
\* prompt.
C18_FailedFirstCallLeavesNoReply ==
  Phase1Failed
  => /\ outcome = "raised"
     /\ Len(ChatCalls) = 1
     /\ Len(CallsOf("lookup")) = 0
     /\ SubSeq(messages, 1, Len(history_before)) = history_before
     /\ Len(Appended) = 1
     /\ \A i \in 1..Len(Appended) : Appended[i].role \notin {"assistant", "tool"}
     /\ Appended[1] = ChatCalls[1].arg.messages[Len(messages)]

C18_Witness ==
  /\ Phase1Failed
  /\ outcome = "raised"
  /\ result.error = "chat"
  /\ messages[Len(messages)].role = "user"


\* The place of a call of the log in the order of ask_book_chat.
Stage(i) ==
  IF calls[i].op = "embed" THEN 1
  ELSE IF calls[i].op = "index" THEN 2
  ELSE IF calls[i].op = "chat" THEN (IF i = FirstChatAt THEN 3 ELSE 5)
  ELSE IF calls[i].op = "lookup" THEN 4
  ELSE 6

\* C19: within one ask the steps run one after the other: the embedding is
\* there before the index is queried, the index has answered before the
\* prompt is built, the first chat call has returned before the lookup and
\* the second chat call, and the second chat call has returned before the
\* image is generated; no step starts unless the one before has returned.
C19_StepsInOrder ==
  /\ \A i, j \in 1..Len(calls) : i < j => Stage(i) < Stage(j)
  /\ \A i \in 1..(Len(calls) - 1) : calls[i].ok
  /\ \A i \in 1..Len(calls) :
       /\ (calls[i].op = "index" /\ i > 1) => calls[i].arg[1] = calls[i - 1].ret
       /\ calls[i].op = "chat" => \E j \in 1..(i - 1) : calls[j].op = "index"
       /\ calls[i].op = "lookup" => (i > 1 /\ calls[i - 1].op = "chat")
       /\ (calls[i].op = "chat" /\ i # FirstChatAt)
          => /\ calls[i - 1].op = "lookup"
             /\ calls[i].arg.messages[Len(calls[i].arg.messages)].content = calls[i - 1].ret
       /\ calls[i].op = "image" => calls[i - 1].op = "chat"
  /\ Len(Appended) >= 1
     => \E i \in 1..Len(calls) : calls[i].op = "index" /\ calls[i].ok /\ Len(calls[i].ret) > 0

C19_Witness ==
  /\ outcome = "returned"
  /\ Len(calls) = 6
  /\ calls[1].op = "embed"
  /\ calls[6].op = "image"


\* No external call is made more often in one ask than the code has
\* call sites on one path.
CallCountsBounded ==
  /\ Len(CallsOf("embed")) <= 1
  /\ Len(CallsOf("index")) <= 1
  /\ Len(ChatCalls) <= 2
  /\ Len(ImageCalls) <= 1
  /\ \A i \in 1..Len(calls) :
       ~calls[i].ok => (i = Len(calls) /\ (outcome = "raised" \/ calls[i].op = "image"))

\* How far ask_book_chat has come: the calls in the order of the code, the
\* end last.
PcRank(p) ==
  IF p = "get_embedding" THEN 1
  ELSE IF p = "query_collection" THEN 2
  ELSE IF p = "first_api_call" THEN 3
  ELSE IF p = "second_api_call" THEN 4
  ELSE IF p = "generate_image" THEN 5
  ELSE 6

\* C20: no external call is made again inside an ask: one ask makes at
\* most one embedding call, one index query, two chat calls and one image
\* call, and a failed call is the last call of the ask.  Every external
\* call returning or raising, the ask ends after that bounded number of
\* calls: a running ask always has a next step, and every step takes it
\* strictly further in the code, so that it has ended after five steps at
\* most.
C20_BoundedCallsAndTermination ==
  /\ []CallCountsBounded
  /\ [](outcome = "running" <=> pc # "idle")
  /\ [](outcome = "running" => ENABLED AskStep)
  /\ [][pc # "idle" => PcRank(pc') > PcRank(pc)]_vars

C20_Witness ==
  /\ outcome = "returned"
  /\ Len(CallsOf("embed")) = 1
  /\ Len(CallsOf("index")) = 1
  /\ Len(ChatCalls) = 2
  /\ Len(ImageCalls) = 1
  /\ ~ImageCalls[1].ok


\* C21: the first chat call declares exactly one tool, get_summary_by_title
\* with the single string argument title; the second chat call declares no
\* tool and limits the output to 250 tokens.
C21_ToolsDeclaredInPhase1Only ==
  \A i \in 1..Len(calls) :
    calls[i].op = "chat"
    => IF i = FirstChatAt
       THEN /\ Len(calls[i].arg.tools) = 1
            /\ calls[i].arg.tools[1].type = "function"
            /\ calls[i].arg.tools[1].name = "get_summary_by_title"
            /\ DOMAIN calls[i].arg.tools[1].properties = {"title"}
            /\ calls[i].arg.tools[1].properties.title = "string"
            /\ calls[i].arg.tools[1].required = << "title" >>
       ELSE /\ calls[i].arg.tools = <<>>
            /\ calls[i].arg.max_tokens = 250

C21_Witness ==
  /\ Len(ChatCalls) = 2
  /\ ChatCalls[1].ok
  /\ ChatCalls[2].ok
  /\ ChatCalls[2].arg.max_tokens = 250


\* ------------------------------------------------ properties of the cache
KeysOf(cache) == { cache[i].key : i \in 1..Len(cache) }

\* C22: the embedding cache never holds more entries than its fixed
\* maximum; an entry is created for the query of the running ask, on its
\* first occurrence; an entry leaves the cache only when a new one comes
\* into a full cache, and it is then the least recently used one.
C22_Claim ==
  /\ [](Len(embedding_cache) <= maxsize)
  /\ [][/\ KeysOf(embedding_cache') \ KeysOf(embedding_cache) \subseteq {query}
        /\ \A k \in KeysOf(embedding_cache) \ KeysOf(embedding_cache') :
             /\ Len(embedding_cache) = maxsize
             /\ KeysOf(embedding_cache') \ KeysOf(embedding_cache) # {}
             /\ k = embedding_cache[1].key]_vars


\* C23: the embedding cache is keyed by the exact query string.  An ask
\* calls the embedding service exactly when no entry has the very string of
\* its query as key; the call is made with that one string and its result
\* is stored under it; so queries that differ only in letter case or in
\* white space have entries and calls of their own.
C23_ExactKey ==
  /\ [](\A i, j \in 1..Len(embedding_cache) :
          embedding_cache[i].key = embedding_cache[j].key => i = j)
  /\ [](\A i \in 1..Len(calls) :
          calls[i].op = "embed"
          => /\ calls[i].arg = query
             /\ calls[i].ok
                => \E e \in 1..Len(embedding_cache) :
                     /\ embedding_cache[e].key = query
                     /\ embedding_cache[e].value = calls[i].ret)
  /\ [][pc = "get_embedding"
        => /\ Len(CallsOf("embed")') = 1 <=> query \notin KeysOf(embedding_cache)
           /\ KeysOf(embedding_cache') \ KeysOf(embedding_cache) \subseteq {query}]_vars

C23_Witness ==
  /\ KeysOf(embedding_cache) = {"space adventure", "space adventure "}
  /\ query = "space adventure "
  /\ Len(CallsOf("embed")) = 1
  /\ CallsOf("embed")[1].ok
  /\ CallsOf("embed")[1].arg = "space adventure "


\* What the run of an ask shows apart from its embedding calls.
Observed ==
  << messages, retrieved_docs, response_message, recommended_title,
     final_text_content, outcome, result,
     SelectSeq(calls, LAMBDA c : c.op # "embed") >>

\* C24: the embedding cache is a pure memoization.  The embedding service
\* being deterministic, every vector the cache holds, and every vector an
\* ask goes on with, is the one a fresh call for that query returns; the
\* step that takes the vector from the cache changes nothing else an
\* observer sees; the index is queried with that vector.  So the service
\* with the cache returns the same text and image URL, appends the same
\* messages and makes the same index and chat calls as without it.
C24_CacheIsMemoization ==
  /\ [](\A e \in 1..Len(embedding_cache) :
          embedding_cache[e].value = embeddings_create(embedding_cache[e].key))
  /\ [](pc \in {"query_collection", "first_api_call", "second_api_call", "generate_image"}
        => query_embedding = embeddings_create(query))
  /\ [](\A i \in 1..Len(calls) :
          calls[i].op = "index" => calls[i].arg[1] = embeddings_create(query))
  /\ [][pc = "get_embedding" /\ pc' = "query_collection"
        => /\ query_embedding' = embeddings_create(query)
           /\ Observed' = Observed]_vars

C24_Witness ==
  /\ query = "Space Adventure"
  /\ Len(embedding_cache) = 2
  /\ embedding_cache[1].key = "space adventure"
  /\ Len(CallsOf("embed")) = 0
  /\ Len(CallsOf("index")) = 1
  /\ CallsOf("index")[1].arg[1] = << 2, 15 >>


\* What ask_book_chat(q, history) yields when it runs with no other ask
\* beside it and the services answer as the log says: how it ends, the
\* text and image URL it returns or the call that raised, and the history
\* afterwards.  Read off the code of ask_book_chat from top to bottom.
AloneYield(q, history, log) ==
  LET At(op) == SelectSeq(log, LAMBDA c : c.op = op)
      Raised(err, h) ==
        [outcome |-> "raised", text |-> None, image_url |-> None,
         error |-> err, history |-> h]
      Returned(text, url, h) ==
        [outcome |-> "returned", text |-> text, image_url |-> url,
         error |-> None, history |-> h]
      h1 == Append(history, UserMessage(BuildPrompt(q, At("index")[1].ret)))
      reply == At("chat")[1].ret
      h2 == Append(h1, reply)
      tool_call == reply.tool_calls[1]
      args == json_loads(tool_call.arguments)
      title == DictGet(args.obj, "title", "")
      h3 == Append(h2, ToolMessage(tool_call.id, tool_call.name,
                                   get_summary_by_title(book_summaries_dict, title)))
      content == At("chat")[2].ret.content
  IN  IF Len(At("embed")) > 0 /\ ~At("embed")[1].ok THEN Raised("embedding", history)
      ELSE IF ~At("index")[1].ok THEN Raised("index", history)
      ELSE IF Len(At("index")[1].ret) = 0 THEN Returned(APOLOGY, None, history)
      ELSE IF ~At("chat")[1].ok THEN Raised("chat", h1)
      ELSE IF Len(reply.tool_calls) = 0
           THEN Returned(IF Truthy(reply.content) THEN reply.content ELSE FALLBACK,
                         None, h2)
      ELSE IF tool_call.name # TOOL_NAME THEN Returned("", None, h2)
      ELSE IF ~args.ok THEN Raised("json", h2)
      ELSE IF ~At("chat")[2].ok THEN Raised("chat", h3)
      ELSE IF Truthy(title) /\ Truthy(content)
              /\ Truthy(DictGet(book_summaries_dict, title, ""))
           THEN Returned(content,
                         IF At("image")[1].ok THEN At("image")[1].ret ELSE None, h3)
      ELSE Returned(content, None, h3)

\* The ask of frame f is over and has yielded what it yields alone.
YieldsAsAlone(f) ==
  f.outcome \in {"returned", "raised"}
  => LET alone == AloneYield(f.query, f.history_before, f.calls)
     IN  /\ f.outcome = alone.outcome
         /\ f.result.text = alone.text
         /\ f.result.image_url = alone.image_url
         /\ f.result.error = alone.error
         /\ f.messages = alone.history

\* An ask with no other ask beside it yields what AloneYield says.
LoneAskYield == YieldsAsAlone(Frame)

\* C25: asks that run at the same time on histories of their own do not
\* touch each other.  Whatever the interleaving, the text and image URL an
\* ask returns (or the exception it raises) and the history it leaves are
\* those of the same ask run alone with the same answers of the services;
\* a step of one thread changes no frame of another; the record table is
\* never written.
C25_ConcurrentAsksIndependent ==
  /\ [](\A t \in Threads : YieldsAsAlone(FrameOf(t)))
  /\ [][/\ book_summaries_dict' = book_summaries_dict
        /\ \A t \in Threads : t # front.running /\ t # front'.running
                              => front'.parked[t] = front.parked[t]
        /\ front'.running # front.running
           => /\ Frame' = front.parked[front'.running]
              /\ front'.parked[front.running] = Frame]_vars

\* Both threads have asked, one ask overtook the other, and both returned
\* a recommendation, each for its own query.
C25_Witness ==
  /\ frontend = "threads"
  /\ FrameOf(1).outcome = "returned"
  /\ FrameOf(2).outcome = "returned"
  /\ FrameOf(1).query = "space adventure"
  /\ FrameOf(2).query = "love story"
  /\ FrameOf(1).result.image_url = IMAGE_URL
  /\ FrameOf(2).result.text = DECLINE_SENTENCE
  /\ Len(FrameOf(1).messages) = 4
  /\ Len(FrameOf(2).messages) = 3
  /\ embedding_cache[1].key = "love story"
  /\ Len(SelectSeq(FrameOf(1).calls, LAMBDA c : c.op = "embed")) = 1
  /\ Len(SelectSeq(FrameOf(2).calls, LAMBDA c : c.op = "embed")) = 1

\* The entries of the cache stored under key k.
EntriesFor(k) == SelectSeq(embedding_cache, LAMBDA e : e.key = k)

\* C26: under any interleaving of concurrent getEmbedding calls, misses
\* in flight for one key included, the cache never holds more than maxsize
\* entries, never two entries for one key, and every vector it holds or
\* has handed to an ask is the embedding service's vector for the key.
C26_CacheConsistentUnderThreads ==
  /\ Len(embedding_cache) <= maxsize
  /\ \A i, j \in 1..Len(embedding_cache) :
       embedding_cache[i].key = embedding_cache[j].key => i = j
  /\ \A i \in 1..Len(embedding_cache) :
       embedding_cache[i].value = embeddings_create(embedding_cache[i].key)
  /\ \A t \in Threads :
       FrameOf(t).pc \in {"query_collection", "first_api_call",
                          "second_api_call", "generate_image"}
       => FrameOf(t).query_embedding = embeddings_create(FrameOf(t).query)

\* Two misses for one key were in flight together and both were answered;
\* the cache is full and holds the key once.
C26_Witness ==
  /\ frontend = "threads"
  /\ FrameOf(1).query = FrameOf(2).query
  /\ FrameOf(1).pc = "query_collection"
  /\ FrameOf(2).pc = "query_collection"
  /\ Len(FrameOf(1).calls) = 1 /\ FrameOf(1).calls[1].ok
  /\ Len(FrameOf(2).calls) = 1 /\ FrameOf(2).calls[1].ok
  /\ Len(embedding_cache) = maxsize
  /\ Len(EntriesFor(FrameOf(1).query)) = 1


\* s is the beginning of t.
IsPrefix(s, t) == Len(s) <= Len(t) /\ SubSeq(t, 1, Len(s)) = s

\* C27: the lifetime of the history follows the front end.  The chat
\* endpoint passes every ask a history that holds the system message and
\* nothing else, and no chat request of it holds a message of another
\* request.  The command-line chat passes its one history to every ask: the
\* history an ask gets is the history as the turn before left it, no step
\* of the session takes a message away, and every chat request of a turn
\* begins with all of the history the turn got.
C27_HistoryLifetime ==
  /\ [](frontend = "http"
        => /\ \A i \in 1..Len(AskEvents) :
                AskEvents[i].history = << SYSTEM_MESSAGE >>
           /\ \A i \in 1..Len(ChatCalls) :
                IsPrefix(ChatCalls[i].arg.messages, messages)
           /\ messages = << SYSTEM_MESSAGE >>)
  /\ [](frontend = "cli"
        => /\ \A i \in 1..Len(AskEvents) : AskEvents[i].history = history_before
           /\ \A i \in 1..Len(ChatCalls) :
                IsPrefix(history_before, ChatCalls[i].arg.messages))
  /\ [][frontend = "cli"
        => /\ IsPrefix(messages, messages')
           /\ turns' # turns => history_before' = messages]_vars

\* The second turn of a command-line session: the first chat request of
\* the turn holds the system message, the prompt and the reply of the
\* first turn, and the prompt of the second.
C27_Witness ==
  /\ frontend = "cli"
  /\ turns = 2
  /\ Len(history_before) = 3
  /\ Len(ChatCalls) >= 1
  /\ Len(ChatCalls[1].arg.messages) = 4
  /\ ChatCalls[1].arg.messages[2].role = "user"
  /\ ChatCalls[1].arg.messages[3].role = "assistant"
  /\ ChatCalls[1].arg.messages[4] = UserMessage(BuildPrompt(query, retrieved_docs))


\* The text of the image prompt up to the summary, and after it.
BeforeSummary(title) ==
  "A symbolic and atmospheric digital painting inspired by the book '" \o title
  \o "'. The artwork should be a visual metaphor for the book's main themes, derived from the summary: '"

AfterSummary ==
  "'. Focus on mood, imagery, and symbolism to evoke the feeling of the story. "

\* C28: the image prompt holds the title and the first 500 characters of
\* the summary, all of the summary when it is shorter, and no character of
\* the summary beyond the 500th: what follows the part taken is the fixed
\* end of the prompt.
C28_PromptTakes500OfSummary ==
  (frontend = "image" /\ front.state = "returned")
  => LET taken == IF Len(front.summary) < 500 THEN Len(front.summary) ELSE 500
         before == BeforeSummary(front.title)
     IN  /\ Len(front.prompt) = Len(before) + taken + Len(AfterSummary)
         /\ SubSeq(front.prompt, 1, Len(before)) = before
         /\ SubSeq(front.prompt, Len(before) + 1, Len(before) + taken)
              = SubSeq(front.summary, 1, taken)
         /\ SubSeq(front.prompt, Len(before) + taken + 1, Len(front.prompt))
              = AfterSummary

\* A prompt built from a summary of 501 characters.
C28_Witness ==
  /\ frontend = "image"
  /\ front.state = "returned"
  /\ Len(front.summary) = 501
  /\ front.title = "1984"
  /\ Len(front.prompt) = Len(BeforeSummary("1984")) + 500 + Len(AfterSummary)


\* C29: in the command-line chat, on every turn on which ask_book_chat
\* returns, the answer printed for the user and the value handed to the
\* speech synthesis when the user wants to listen is the response text that
\* ask_book_chat returned for the turn.
C29_Claim ==
  (frontend = "cli" /\ front.state = "ready" /\ Len(AskEvents) = 1
     /\ outcome = "returned")
  => /\ \E i \in 1..Len(front.events) :
          front.events[i] = Printed("\nAssistant: " \o result.text \o "\n")
     /\ \A i \in 1..Len(EventsOf("tts")) : EventsOf("tts")[i].input = result.text


\* In the message list ms every assistant message that carries tool calls
\* is followed at once by one tool message for each of its tool call ids.
ToolCallsAnswered(ms) ==
  \A i \in 1..Len(ms) :
    (ms[i].role = "assistant" /\ Len(ms[i].tool_calls) > 0)
    => \A k \in 1..Len(ms[i].tool_calls) :
         /\ i + k <= Len(ms)
         /\ ms[i + k].role = "tool"
         /\ ms[i + k].tool_call_id = ms[i].tool_calls[k].id

\* C30: in every message list submitted to the language model, in phase 1
\* or phase 2 of any turn, every assistant message that carries tool calls
\* is immediately followed by a tool-role message for each of its tool
\* call ids.
C30_Claim ==
  \A i \in 1..Len(ChatCalls) : ToolCallsAnswered(ChatCalls[i].arg.messages)


\* C31: every ask that returns normally returns a response text that is
\* a string and not empty, on every branch: empty retrieval, a phase-1
\* reply without a tool call (empty content included), a phase-1 reply
\* with a tool call of any function name, a phase-2 reply of any content.
C31_Claim ==
  outcome = "returned" => Truthy(result.text)


\* C32: an ask only appends to the history of its caller.  While it runs
\* and after it, returned or raised at whatever step, the history as it
\* was at the call is the beginning of the history, message for message,
\* and no step of the ask takes away or rewrites a message.
C32_AppendOnly ==
  /\ [](IsPrefix(history_before, messages))
  /\ [][pc # "idle" => IsPrefix(messages, messages')]_vars

\* The second turn of a session raised at its second chat call: the three
\* messages of before the turn are there, with the three of the turn.
C32_Witness ==
  /\ turns = 2
  /\ outcome = "raised"
  /\ Len(history_before) >= 3
  /\ Len(ChatCalls) = 2
  /\ Len(messages) = Len(history_before) + 3
  /\ SubSeq(messages, 1, Len(history_before)) = history_before


\* The index answered this ask with no document.
EmptyRetrieval ==
  Len(CallsOf("index")) = 1 /\ CallsOf("index")[1].ok
  /\ Len(CallsOf("index")[1].ret) = 0

\* C33: on the path on which the index returns no document the ask leaves
\* the history of the caller as it was (the prompt is not appended) and
\* runs neither the lookup of a summary nor the image generation.
C33_EmptyRetrievalLeavesHistory ==
  EmptyRetrieval
  => /\ messages = history_before
     /\ Len(CallsOf("lookup")) = 0
     /\ Len(CallsOf("image")) = 0
     /\ calls[Len(calls)].op = "index"

C33_Witness ==
  /\ EmptyRetrieval
  /\ pc = "idle"
  /\ result.text = APOLOGY
  /\ query = "space adventure "
  /\ Len(embedding_cache) = maxsize


\* C34: a failed embedding call is not cached.  The step on which the call
\* fails leaves the cache as it was, with no entry for the query; and the
\* ask that comes next with the same query, once past its embedding step,
\* has called the embedding service again.
C34_FailureNotCached ==
  /\ [][(Len(CallsOf("embed")') = Len(CallsOf("embed")) + 1
         /\ ~CallsOf("embed")'[Len(CallsOf("embed")')].ok)
        => /\ embedding_cache' = embedding_cache
           /\ query \notin KeysOf(embedding_cache')]_vars
  /\ []((/\ previous.same
         /\ Len(previous.embed) = 1
         /\ ~previous.embed[1].ok
         /\ pc # "get_embedding")
        => /\ Len(CallsOf("embed")) = 1
           /\ CallsOf("embed")[1].arg = query)

\* The embedding call of an ask failed, and the next ask with the same
\* query called the service again and was answered.
C34_Witness ==
  /\ previous.same
  /\ Len(previous.embed) = 1
  /\ ~previous.embed[1].ok
  /\ Len(CallsOf("embed")) = 1
  /\ CallsOf("embed")[1].ok
  /\ pc = "query_collection"
  /\ query \in KeysOf(embedding_cache)


\* The query of the request is empty or white space only.
BlankRequest ==
  /\ Len(EventsOf("request")) = 1
  /\ \/ EventsOf("request")[1].query = ""
     \/ \A c \in 1..Len(EventsOf("request")[1].query) :
          SubSeq(EventsOf("request")[1].query, c, c) = " "

\* C35: the chat endpoint answers an empty or white-space-only query with
\* status 400 before any other work: the handler does nothing but answer,
\* neither the moderation service nor ask_book_chat is called, and no
\* external call is made.
C35_BlankQueryIs400 ==
  (frontend = "http" /\ BlankRequest)
  => /\ front.events = << EventsOf("request")[1], Responded(400, "Query cannot be empty.") >>
     /\ Len(ModerationEvents) = 0
     /\ Len(AskEvents) = 0
     /\ calls = <<>>
     /\ outcome = "none"

C35_Witness ==
  /\ frontend = "http"
  /\ EventsOf("request") = << Received("   ") >>
  /\ Len(Responses) = 1
  /\ Responses[1].status = 400


\* The step is a pass of the legacy loop that took the cache-hit branch.
CacheHitTurn ==
  /\ frontend = "legacy"
  /\ front' # front
  /\ Len(front'.events) >= 3
  /\ front'.events[1].ev = "input"
  /\ front'.events[2] = Printed("--- [Cache Hit]: Using cached final response. ---")

\* C36: in the legacy command-line loop a query equal to an earlier query
\* of the session whose ask returned is answered from response_cache: the
\* response of that ask is shown (and spoken), ask_book_chat is not
\* called, no embedding, index or chat call is made and the history stays
\* as it is.  The cache is written only when an ask has returned, with the
\* query and the response of that ask, and an entry once written stays; an
\* ask that raised has stored nothing; a query in the cache is never asked
\* again.
C36_ResponseCache ==
  /\ [][CacheHitTurn
        => /\ \E i \in 1..Len(front.response_cache) :
                /\ front.response_cache[i].key = front'.events[1].query
                /\ front'.events[3] =
                     Printed("\nAssistant: " \o str(front.response_cache[i].value) \o "\n")
                /\ \A e \in 1..Len(front'.events) :
                     front'.events[e].ev = "tts"
                     => front'.events[e].input = front.response_cache[i].value
           /\ \A e \in 1..Len(front'.events) : front'.events[e].ev # "ask"
           /\ pc = "idle" /\ pc' = "idle"
           /\ calls' = calls
           /\ messages' = messages
           /\ embedding_cache' = embedding_cache
           /\ front'.response_cache = front.response_cache]_vars
  /\ [][frontend = "legacy"
        => /\ IsPrefix(front.response_cache, front'.response_cache)
           /\ front'.response_cache # front.response_cache
              => /\ front.state = "asking"
                 /\ outcome = "returned"
                 /\ front'.response_cache =
                      Append(front.response_cache,
                             [key |-> query, value |-> result.text])
           /\ (pc = "idle" /\ pc' # "idle")
              => \A i \in 1..Len(front.response_cache) :
                   front.response_cache[i].key # query']_vars
  /\ []((frontend = "legacy" /\ outcome = "raised")
        => \A i \in 1..Len(front.response_cache) :
             front.response_cache[i].key # query)
  /\ []((frontend = "legacy" /\ front.state = "ready" /\ outcome = "returned")
        => \E i \in 1..Len(front.response_cache) :
             /\ front.response_cache[i].key = query
             /\ front.response_cache[i].value = result.text)

\* Two asks returned with different responses, then the query of the
\* first was typed again: its response was shown and spoken.
C36_Witness ==
  /\ frontend = "legacy"
  /\ Len(front.response_cache) = 2
  /\ front.response_cache[1].value # front.response_cache[2].value
  /\ query = front.response_cache[2].key
  /\ Len(front.events) >= 4
  /\ front.events[1] = Typed(front.response_cache[1].key)
  /\ front.events[2] = Printed(CACHE_HIT)
  /\ front.events[3] =
       Printed("\nAssistant: " \o str(front.response_cache[1].value) \o "\n")
  /\ front.events[4] = Spoken(front.response_cache[1].value)
  /\ Len(calls) > 0

====
